---- MODULE Spec2Model ----
(***************************************************************************)
(* The text buffer revision engine of crates/doc/src/lines/buffer/mod.rs   *)
(* (Buffer: revision log, union-string model, undo/redo resolver) and the  *)
(* diff classifier of crates/doc/src/lines/diff.rs.                        *)
(*                                                                         *)
(* A Rope is a sequence of one-character strings.  A Subset (the multiset  *)
(* of lapce_xi_rope) is a sequence of counts, one per character of the     *)
(* string it ranges over; its run-length segments are canonical, so two    *)
(* Subsets are equal exactly when their count sequences are equal.  A      *)
(* Delta is a sequence of Copy(b, e) / Insert(rope) elements over a base   *)
(* length.                                                                 *)
(***************************************************************************)
EXTENDS Integers, Sequences, FiniteSets, TLC

\* ------------------------------------------------------------------ bounds
\* Cap on the number of operations of one run (Buffer::new included).
MaxOps == 4
\* Cap on the number of operations of one run of typing.
MaxTypingOps == 7
\* Cap on the number of operations of one run of group toggling.
MaxSelOps == 5
\* Cap on the number of segments of a diff, and on its line numbers.
MaxSegs == 3
MaxLine == 3
\* Cap on the length of the visible text an edit may start from.
MaxText == 1
\* Operations per run when the calls that return None are recorded too.
MaxHistOps == 6
\* Operations per run of the writer beside a reader of atomic_rev.
MaxAtomicOps == 5
\* Buffer operations and diff jobs per run of the diff editor.
MaxJobOps == 3
MaxJobs == 2
\* Operations per run with an edit of several regions, and regions per edit.
MaxMultiOps == 4
MaxRegions == 3
\* Operations per run of the buffer with cursor snapshots.
MaxCursorOps == 7
\* Operations per run of the buffer with line breaks.
MaxLineOps == 4
\* Buffer operations per run of the fairly scheduled diff job.
MaxLiveOps == 2
\* Operations per run of a buffer and its clone.
MaxCloneOps == 4
\* Operations per run of a buffer with initial content.
MaxInitialOps == 6
\* Segments per contiguous segment list, and lines per segment.
MaxContigSegs == 3
MaxSegLines == 2

\* ------------------------------------------------------------ small helpers
Max(a, b) == IF a >= b THEN a ELSE b
Min(a, b) == IF a <= b THEN a ELSE b

SetMin(S) == CHOOSE x \in S : \A y \in S : x <= y

Last(s) == s[Len(s)]

Slice(s, b, e) == [i \in 1..(e - b) |-> s[b + i]]

RECURSIVE Flatten(_)
Flatten(ss) == IF ss = <<>> THEN <<>> ELSE Head(ss) \o Flatten(Tail(ss))

SymDiff(A, B) == (A \ B) \cup (B \ A)

RECURSIVE XorNat(_, _)
XorNat(a, b) ==
    IF a = 0 THEN b
    ELSE IF b = 0 THEN a
    ELSE ((a + b) % 2) + 2 * XorNat(a \div 2, b \div 2)

\* ------------------------------------------------ Subset (xi-rope multiset)
SubsetNew(len) == [i \in 1..len |-> 0]

SubsetIsEmpty(a) == \A i \in 1..Len(a) : a[i] = 0

\* Number of elements of a with count 0 among the first n.
ZerosBefore(a, n) == Cardinality({j \in 1..n : a[j] = 0})

LenAfterDelete(a) == ZerosBefore(a, Len(a))

SubsetUnion(a, b) == [i \in 1..Len(a) |-> a[i] + b[i]]

\* subtract() asserts that no count becomes negative.
CanSubtract(a, b) == Len(a) = Len(b) /\ \A i \in 1..Len(a) : a[i] >= b[i]
SubsetSubtract(a, b) == [i \in 1..Len(a) |-> a[i] - b[i]]

SubsetBitxor(a, b) == [i \in 1..Len(a) |-> XorNat(a[i], b[i])]

SubsetComplement(a) == [i \in 1..Len(a) |-> IF a[i] = 0 THEN 1 ELSE 0]

\* transform(other, union): self mapped into the 0-regions of other.
SubsetTransform(a, other, union) ==
    [i \in 1..Len(other) |->
        IF other[i] > 0 THEN (IF union THEN other[i] ELSE 0)
        ELSE a[ZerosBefore(other, i)]]

TransformExpand(a, other) == SubsetTransform(a, other, FALSE)
TransformUnion(a, other) == SubsetTransform(a, other, TRUE)

\* transform_shrink(other): drop the elements where other has a positive count.
RECURSIVE ShrinkFrom(_, _, _)
ShrinkFrom(a, other, i) ==
    IF i > Len(a) THEN <<>>
    ELSE (IF other[i] = 0 THEN <<a[i]>> ELSE <<>>) \o ShrinkFrom(a, other, i + 1)

TransformShrink(a, other) == ShrinkFrom(a, other, 1)

\* delete_from: the characters of s that the subset does not contain.
DeleteFrom(a, s) == ShrinkFrom(s, a, 1)

\* ------------------------------------------------------------------ Delta
Copy(b, e) == [t |-> "Copy", b |-> b, e |-> e, s |-> <<>>]
Insert(s) == [t |-> "Insert", b |-> 0, e |-> 0, s |-> s]

MkDelta(els, base_len) == [els |-> els, base_len |-> base_len]

\* DeltaBuilder::delete / replace / build.
BuilderNew(base_len) == [els |-> <<>>, last_offset |-> 0, base_len |-> base_len]

BuilderReplace(bd, start, end, rope) ==
    LET copied == IF start > bd.last_offset
                  THEN Append(bd.els, Copy(bd.last_offset, start))
                  ELSE bd.els
    IN  [bd EXCEPT !.els = IF rope # <<>> THEN Append(copied, Insert(rope)) ELSE copied,
                   !.last_offset = end]

BuilderBuild(bd) ==
    MkDelta(IF bd.last_offset < bd.base_len
            THEN Append(bd.els, Copy(bd.last_offset, bd.base_len))
            ELSE bd.els,
            bd.base_len)

\* The builder asserts that the intervals come sorted.
BuilderAccepts(bd, start) == start >= bd.last_offset

SimpleEdit(start, end, rope, base_len) ==
    BuilderBuild(BuilderReplace(BuilderNew(base_len), start, end, rope))

ElemLen(el) == IF el.t = "Copy" THEN el.e - el.b ELSE Len(el.s)

RECURSIVE ApplyEls(_, _)
ApplyEls(els, text) ==
    IF els = <<>> THEN <<>>
    ELSE (IF Head(els).t = "Copy" THEN Slice(text, Head(els).b, Head(els).e)
          ELSE Head(els).s) \o ApplyEls(Tail(els), text)

DeltaApply(delta, text) == ApplyEls(delta.els, text)

\* Delta::factor: the insert-only delta and the subset of the base it deletes.
\* acc = [ins, dels, b1, e1]
RECURSIVE FactorEls(_, _, _)
FactorEls(els, acc, base_len) ==
    IF els = <<>> THEN
        [ins |-> MkDelta(IF acc.b1 < base_len
                         THEN Append(acc.ins, Copy(acc.b1, base_len))
                         ELSE acc.ins, base_len),
         dels |-> [i \in 1..base_len |->
                     IF acc.dels[i] = 1 \/ i > acc.e1 THEN 1 ELSE 0]]
    ELSE LET el == Head(els) IN
        IF el.t = "Copy" THEN
            FactorEls(Tail(els),
                      [acc EXCEPT !.dels = [i \in 1..base_len |->
                                              IF acc.dels[i] = 1 \/ (i > acc.e1 /\ i <= el.b)
                                              THEN 1 ELSE 0],
                                  !.e1 = el.e],
                      base_len)
        ELSE
            FactorEls(Tail(els),
                      [acc EXCEPT !.ins = (IF acc.e1 > acc.b1
                                           THEN Append(acc.ins, Copy(acc.b1, acc.e1))
                                           ELSE acc.ins) \o <<el>>,
                                  !.b1 = acc.e1],
                      base_len)

Factor(delta) ==
    FactorEls(delta.els,
              [ins |-> <<>>, dels |-> SubsetNew(delta.base_len), b1 |-> 0, e1 |-> 0],
              delta.base_len)

\* Index (0-based) in xform's string of the p-th character xform does not
\* contain, or the length of the string when there are only p of them.
UnionPos(xform, p) ==
    IF p >= LenAfterDelete(xform) THEN Len(xform)
    ELSE SetMin({i \in 1..Len(xform) : xform[i] = 0 /\ ZerosBefore(xform, i) = p + 1}) - 1

\* InsertDelta::transform_expand(xform, after = true): the insertions carried
\* to the coordinates of xform's string, each one placed after the characters
\* xform contains at its point.  acc = [els, b1, x]; x is the end of the last
\* Copy read (the position of the next insertion in the base of ins).
RECURSIVE ExpandEls(_, _, _)
ExpandEls(els, acc, xform) ==
    IF els = <<>> THEN
        MkDelta(IF Len(xform) > acc.b1
                THEN Append(acc.els, Copy(acc.b1, Len(xform)))
                ELSE acc.els,
                Len(xform))
    ELSE LET el == Head(els) IN
        IF el.t = "Copy" THEN
            ExpandEls(Tail(els), [acc EXCEPT !.x = el.e], xform)
        ELSE LET y == UnionPos(xform, acc.x) IN
            ExpandEls(Tail(els),
                      [acc EXCEPT !.els = (IF y > acc.b1
                                           THEN Append(acc.els, Copy(acc.b1, y))
                                           ELSE acc.els) \o <<el>>,
                                  !.b1 = y],
                      xform)

InsTransformExpand(ins, xform) ==
    ExpandEls(ins.els, [els |-> <<>>, b1 |-> 0, x |-> 0], xform)

\* InsertDelta::inserted_subset.
InsertedSubset(ins) ==
    Flatten([k \in 1..Len(ins.els) |->
                [i \in 1..ElemLen(ins.els[k]) |->
                    IF ins.els[k].t = "Insert" THEN 1 ELSE 0]])

\* InsertDelta::transform_shrink(xform).
InsTransformShrink(ins, xform) ==
    MkDelta([k \in 1..Len(ins.els) |->
                IF ins.els[k].t = "Copy"
                THEN Copy(ZerosBefore(xform, ins.els[k].b), ZerosBefore(xform, ins.els[k].e))
                ELSE ins.els[k]],
            LenAfterDelete(xform))

\* Number of elements with a positive count among the first n
\* (Mapper::doc_index_to_subset with CountMatcher::NonZero).
NonZerosBefore(a, n) == n - ZerosBefore(a, n)

\* Delta::synthesize(tombstones, from_dels, to_dels): the delta from the text
\* under from_dels to the text under to_dels.  One step per character i of
\* the union string that to_dels keeps: a Copy from the old text (merged with
\* a contiguous Copy before it) or an Insert from the tombstones.
RECURSIVE SynthEls(_, _, _, _, _)
SynthEls(tombstones, from_dels, to_dels, i, els) ==
    IF i > Len(to_dels) THEN els
    ELSE IF to_dels[i] # 0 THEN SynthEls(tombstones, from_dels, to_dels, i + 1, els)
    ELSE IF from_dels[i] = 0 THEN
        LET xb == ZerosBefore(from_dels, i) - 1
            merged == els # <<>> /\ Last(els).t = "Copy" /\ Last(els).e = xb
        IN  SynthEls(tombstones, from_dels, to_dels, i + 1,
                     IF merged THEN [els EXCEPT ![Len(els)].e = xb + 1]
                     ELSE Append(els, Copy(xb, xb + 1)))
    ELSE
        LET c == tombstones[NonZerosBefore(from_dels, i)]
            \* an Insert runs on while the characters are consecutive in the
            \* union string and in neither text
            joined == els # <<>> /\ Last(els).t = "Insert"
                      /\ i > 1 /\ to_dels[i - 1] = 0 /\ from_dels[i - 1] # 0
        IN  SynthEls(tombstones, from_dels, to_dels, i + 1,
                     IF joined THEN [els EXCEPT ![Len(els)].s = Append(@, c)]
                     ELSE Append(els, Insert(<<c>>)))

Synthesize(tombstones, from_dels, to_dels) ==
    MkDelta(SynthEls(tombstones, from_dels, to_dels, 1, <<>>), LenAfterDelete(from_dels))

\* ------------------------------------------------------------- EditType
\* EditType::breaks_undo_group(self, previous): only a run of InsertChars or
\* a run of Delete stays in one group.
breaks_undo_group(this, previous) ==
    ~((this = "InsertChars" \/ this = "Delete") /\ this = previous)

\* --------------------------------------------------------------- Revision
NoCursor == "None"

EditRevision(num, max_undo, undo_group, inserts, deletes) ==
    [num |-> num, max_undo_so_far |-> max_undo, kind |-> "Edit",
     undo_group |-> undo_group, inserts |-> inserts, deletes |-> deletes,
     toggled_groups |-> {}, deletes_bitxor |-> <<>>,
     cursor_before |-> NoCursor, cursor_after |-> NoCursor]

UndoRevision(num, max_undo, toggled, bitxor, cb, ca) ==
    [num |-> num, max_undo_so_far |-> max_undo, kind |-> "Undo",
     undo_group |-> 0, inserts |-> <<>>, deletes |-> <<>>,
     toggled_groups |-> toggled, deletes_bitxor |-> bitxor,
     cursor_before |-> cb, cursor_after |-> ca]

\* ----------------------------------------------------------------- Buffer
\* Buffer::new(text)
BufferNew(text) ==
    [text |-> text,
     rev_counter |-> 1,
     pristine_rev_id |-> 0,
     atomic_rev |-> 0,
     revs |-> <<UndoRevision(0, 0, {}, SubsetNew(0), NoCursor, NoCursor)>>,
     cur_undo |-> 1,
     undos |-> {},
     undo_group_id |-> 1,
     live_undos |-> <<0>>,
     deletes_from_union |-> SubsetNew(Len(text)),
     undone_groups |-> {},
     tombstones |-> <<>>,
     this_edit_type |-> "Other",
     last_edit_type |-> "Other"]

\* Buffer::rev
rev(self) == Last(self.revs).num

\* Buffer::set_pristine
set_pristine(self) == [self EXCEPT !.pristine_rev_id = rev(self)]

\* set_cursor_before that puts the snapshot on the last Edit revision of the
\* log (on the last revision when there is no Edit).
set_cursor_before_last_edit(self, cursor) ==
    LET edits == {k \in 1..Len(self.revs) : self.revs[k].kind = "Edit"}
        k == IF edits = {} THEN Len(self.revs)
             ELSE CHOOSE x \in edits : \A y \in edits : y <= x
    IN  [self EXCEPT !.revs[k].cursor_before = cursor]

\* Buffer::set_cursor_before, Buffer::set_cursor_after: the snapshot goes on
\* the last revision of the log.
set_cursor_before(self, cursor) ==
    [self EXCEPT !.revs[Len(self.revs)].cursor_before = cursor]
set_cursor_after(self, cursor) ==
    [self EXCEPT !.revs[Len(self.revs)].cursor_after = cursor]

\* Buffer::reset_edit_type
reset_edit_type(self) == [self EXCEPT !.last_edit_type = "Other"]

\* Variant of shuffle_tombstones that appends the newly deleted text at the
\* end of tombstones instead of moving it to its place in the union string.
shuffle_tombstones_appends(text, tombstones, old_deletes_from_union, new_deletes_from_union) ==
    LET deleted_in_text == TransformShrink(new_deletes_from_union, old_deletes_from_union)
    IN  tombstones \o DeleteFrom(SubsetComplement(deleted_in_text), text)

\* shuffle_tombstones that moves nothing into the tombstones.
shuffle_tombstones_unmoved(text, tombstones, old_deletes_from_union, new_deletes_from_union) ==
    tombstones

\* shuffle_tombstones
shuffle_tombstones(text, tombstones, old_deletes_from_union, new_deletes_from_union) ==
    LET inverse_tombstones_map == SubsetComplement(old_deletes_from_union)
        move_delta == Synthesize(text, inverse_tombstones_map,
                                 SubsetComplement(new_deletes_from_union))
    IN  DeltaApply(move_delta, tombstones)

\* shuffle that leaves the deleted characters in the text.
shuffle_keeps_text(text, tombstones, old_deletes_from_union, new_deletes_from_union) ==
    [text |-> text,
     tombstones |-> shuffle_tombstones(text, tombstones, old_deletes_from_union,
                                       new_deletes_from_union)]

\* shuffle
shuffle(text, tombstones, old_deletes_from_union, new_deletes_from_union) ==
    LET del_delta == Synthesize(tombstones, old_deletes_from_union, new_deletes_from_union)
    IN  [text |-> DeltaApply(del_delta, text),
         tombstones |-> shuffle_tombstones(text, tombstones, old_deletes_from_union,
                                           new_deletes_from_union)]

\* Variant of calculate_undo_group that hands out undo_group_id for the new
\* group without advancing the counter.
calculate_undo_group_keeps_id(self) ==
    LET has_undos == self.live_undos # <<>>
        is_unbroken_group == ~breaks_undo_group(self.this_edit_type, self.last_edit_type)
    IN  IF has_undos /\ is_unbroken_group
        THEN [undo_group |-> Last(self.live_undos), self |-> self]
        ELSE [undo_group |-> self.undo_group_id,
              self |-> [self EXCEPT
                  !.live_undos = Append(SubSeq(self.live_undos, 1,
                                               Min(self.cur_undo, Len(self.live_undos))),
                                        self.undo_group_id),
                  !.cur_undo = self.cur_undo + 1]]

\* calculate_undo_group that starts a group for every edit.
calculate_undo_group_always_new(self) ==
    [undo_group |-> self.undo_group_id,
     self |-> [self EXCEPT
         !.live_undos = Append(SubSeq(self.live_undos, 1,
                                      Min(self.cur_undo, Len(self.live_undos))),
                               self.undo_group_id),
         !.cur_undo = self.cur_undo + 1,
         !.undo_group_id = self.undo_group_id + 1]]

\* calculate_undo_group that looks at the type of the edit alone.
calculate_undo_group_ignores_last(self) ==
    IF self.live_undos # <<>> /\ self.this_edit_type \in {"InsertChars", "Delete"}
       /\ self.cur_undo = Len(self.live_undos) /\ self.cur_undo > 1
    THEN [undo_group |-> Last(self.live_undos), self |-> self]
    ELSE calculate_undo_group_always_new(self)

\* calculate_undo_group that does not truncate live_undos.
calculate_undo_group_keeps_redo(self) ==
    LET has_undos == self.live_undos # <<>>
        is_unbroken_group == ~breaks_undo_group(self.this_edit_type, self.last_edit_type)
    IN  IF has_undos /\ is_unbroken_group
        THEN [undo_group |-> Last(self.live_undos), self |-> self]
        ELSE [undo_group |-> self.undo_group_id,
              self |-> [self EXCEPT
                  !.live_undos = Append(self.live_undos, self.undo_group_id),
                  !.cur_undo = self.cur_undo + 1,
                  !.undo_group_id = self.undo_group_id + 1]]

\* calculate_undo_group that lets an edit of a coalescing type join the last
\* live group whatever happened before it.
calculate_undo_group_joins_last(self) ==
    IF self.live_undos # <<>> /\ self.this_edit_type \in {"InsertChars", "Delete"}
    THEN [undo_group |-> Last(self.live_undos), self |-> self]
    ELSE calculate_undo_group_always_new(self)

\* calculate_undo_group that takes the groups it cuts from live_undos out
\* of undos as well.
calculate_undo_group_forgets_cut(self) ==
    LET has_undos == self.live_undos # <<>>
        is_unbroken_group == ~breaks_undo_group(self.this_edit_type, self.last_edit_type)
        kept == SubSeq(self.live_undos, 1, Min(self.cur_undo, Len(self.live_undos)))
    IN  IF has_undos /\ is_unbroken_group
        THEN [undo_group |-> Last(self.live_undos), self |-> self]
        ELSE [undo_group |-> self.undo_group_id,
              self |-> [self EXCEPT
                  !.live_undos = Append(kept, self.undo_group_id),
                  !.undos = {g \in self.undos :
                                \E i \in 1..Len(kept) : kept[i] = g},
                  !.cur_undo = self.cur_undo + 1,
                  !.undo_group_id = self.undo_group_id + 1]]

\* Buffer::calculate_undo_group: the group of the edit and the buffer after it.
calculate_undo_group(self) ==
    LET has_undos == self.live_undos # <<>>
        is_unbroken_group == ~breaks_undo_group(self.this_edit_type, self.last_edit_type)
    IN  IF has_undos /\ is_unbroken_group
        THEN [undo_group |-> Last(self.live_undos), self |-> self]
        ELSE [undo_group |-> self.undo_group_id,
              self |-> [self EXCEPT
                  !.live_undos = Append(SubSeq(self.live_undos, 1,
                                               Min(self.cur_undo, Len(self.live_undos))),
                                        self.undo_group_id),
                  !.cur_undo = self.cur_undo + 1,
                  !.undo_group_id = self.undo_group_id + 1]]

\* Variant of mk_new_rev that applies the deletes whether or not the group is
\* undone.
mk_new_rev_ignores_undone(self, undo_group, delta) ==
    LET f == Factor(delta)
        ins_delta == f.ins
        deletes == f.dels
        deletes_at_rev == self.deletes_from_union
        union_ins_delta == InsTransformExpand(ins_delta, deletes_at_rev)
        new_inserts == InsertedSubset(union_ins_delta)
        expanded == TransformExpand(deletes, deletes_at_rev)
        new_deletes == IF ~SubsetIsEmpty(new_inserts)
                       THEN TransformExpand(expanded, new_inserts)
                       ELSE expanded
        cur_deletes_from_union == self.deletes_from_union
        text_ins_delta == InsTransformShrink(union_ins_delta, cur_deletes_from_union)
        text_with_inserts == DeltaApply(text_ins_delta, self.text)
        rebased_deletes_from_union == TransformExpand(cur_deletes_from_union, new_inserts)
        undone == undo_group \in self.undone_groups
        to_delete == new_deletes
        new_deletes_from_union == SubsetUnion(rebased_deletes_from_union, to_delete)
        sh == shuffle(text_with_inserts, self.tombstones, rebased_deletes_from_union,
                      new_deletes_from_union)
        head_rev == Last(self.revs)
    IN  [atomic |-> self.rev_counter,
         rev |-> EditRevision(self.rev_counter,
                              Max(undo_group, head_rev.max_undo_so_far),
                              undo_group, new_inserts, new_deletes),
         text |-> sh.text,
         tombstones |-> sh.tombstones,
         deletes_from_union |-> new_deletes_from_union]

\* Variant of mk_new_rev that numbers the revision one past rev_counter.
mk_new_rev_counts_ahead(self, undo_group, delta) ==
    LET f == Factor(delta)
        ins_delta == f.ins
        deletes == f.dels
        deletes_at_rev == self.deletes_from_union
        union_ins_delta == InsTransformExpand(ins_delta, deletes_at_rev)
        new_inserts == InsertedSubset(union_ins_delta)
        expanded == TransformExpand(deletes, deletes_at_rev)
        new_deletes == IF ~SubsetIsEmpty(new_inserts)
                       THEN TransformExpand(expanded, new_inserts)
                       ELSE expanded
        cur_deletes_from_union == self.deletes_from_union
        text_ins_delta == InsTransformShrink(union_ins_delta, cur_deletes_from_union)
        text_with_inserts == DeltaApply(text_ins_delta, self.text)
        rebased_deletes_from_union == TransformExpand(cur_deletes_from_union, new_inserts)
        undone == undo_group \in self.undone_groups
        to_delete == IF undone THEN new_inserts ELSE new_deletes
        new_deletes_from_union == SubsetUnion(rebased_deletes_from_union, to_delete)
        sh == shuffle(text_with_inserts, self.tombstones, rebased_deletes_from_union,
                      new_deletes_from_union)
        head_rev == Last(self.revs)
    IN  [atomic |-> self.rev_counter,
         rev |-> EditRevision(self.rev_counter + 1,
                              Max(undo_group, head_rev.max_undo_so_far),
                              undo_group, new_inserts, new_deletes),
         text |-> sh.text,
         tombstones |-> sh.tombstones,
         deletes_from_union |-> new_deletes_from_union]

\* mk_new_rev without the store into atomic_rev.
mk_new_rev_unpublished(self, undo_group, delta) ==
    LET f == Factor(delta)
        ins_delta == f.ins
        deletes == f.dels
        deletes_at_rev == self.deletes_from_union
        union_ins_delta == InsTransformExpand(ins_delta, deletes_at_rev)
        new_inserts == InsertedSubset(union_ins_delta)
        expanded == TransformExpand(deletes, deletes_at_rev)
        new_deletes == IF ~SubsetIsEmpty(new_inserts)
                       THEN TransformExpand(expanded, new_inserts)
                       ELSE expanded
        cur_deletes_from_union == self.deletes_from_union
        text_ins_delta == InsTransformShrink(union_ins_delta, cur_deletes_from_union)
        text_with_inserts == DeltaApply(text_ins_delta, self.text)
        rebased_deletes_from_union == TransformExpand(cur_deletes_from_union, new_inserts)
        undone == undo_group \in self.undone_groups
        to_delete == IF undone THEN new_inserts ELSE new_deletes
        new_deletes_from_union == SubsetUnion(rebased_deletes_from_union, to_delete)
        sh == shuffle(text_with_inserts, self.tombstones, rebased_deletes_from_union,
                      new_deletes_from_union)
        head_rev == Last(self.revs)
    IN  [atomic |-> self.atomic_rev,
         rev |-> EditRevision(self.rev_counter,
                              Max(undo_group, head_rev.max_undo_so_far),
                              undo_group, new_inserts, new_deletes),
         text |-> sh.text,
         tombstones |-> sh.tombstones,
         deletes_from_union |-> new_deletes_from_union]

\* Buffer::mk_new_rev: (Revision, new text, new tombstones, new deletes from
\* union) and the value it stores into atomic_rev.
mk_new_rev(self, undo_group, delta) ==
    LET f == Factor(delta)
        ins_delta == f.ins
        deletes == f.dels
        deletes_at_rev == self.deletes_from_union
        union_ins_delta == InsTransformExpand(ins_delta, deletes_at_rev)
        new_inserts == InsertedSubset(union_ins_delta)
        expanded == TransformExpand(deletes, deletes_at_rev)
        new_deletes == IF ~SubsetIsEmpty(new_inserts)
                       THEN TransformExpand(expanded, new_inserts)
                       ELSE expanded
        cur_deletes_from_union == self.deletes_from_union
        text_ins_delta == InsTransformShrink(union_ins_delta, cur_deletes_from_union)
        text_with_inserts == DeltaApply(text_ins_delta, self.text)
        rebased_deletes_from_union == TransformExpand(cur_deletes_from_union, new_inserts)
        undone == undo_group \in self.undone_groups
        to_delete == IF undone THEN new_inserts ELSE new_deletes
        new_deletes_from_union == SubsetUnion(rebased_deletes_from_union, to_delete)
        sh == shuffle(text_with_inserts, self.tombstones, rebased_deletes_from_union,
                      new_deletes_from_union)
        head_rev == Last(self.revs)
    IN  [atomic |-> self.rev_counter,
         rev |-> EditRevision(self.rev_counter,
                              Max(undo_group, head_rev.max_undo_so_far),
                              undo_group, new_inserts, new_deletes),
         text |-> sh.text,
         tombstones |-> sh.tombstones,
         deletes_from_union |-> new_deletes_from_union]

\* apply_edit that does not advance rev_counter.
apply_edit_same_counter(self, new_rev, new_text, new_tombstones, new_deletes_from_union) ==
    [self EXCEPT !.revs = Append(self.revs, new_rev),
                 !.text = new_text,
                 !.tombstones = new_tombstones,
                 !.deletes_from_union = new_deletes_from_union]

\* apply_edit that advances rev_counter by two.
apply_edit_counts_twice(self, new_rev, new_text, new_tombstones, new_deletes_from_union) ==
    [self EXCEPT !.rev_counter = self.rev_counter + 2,
                 !.revs = Append(self.revs, new_rev),
                 !.text = new_text,
                 !.tombstones = new_tombstones,
                 !.deletes_from_union = new_deletes_from_union]

\* Buffer::apply_edit: installs the revision and the new text, tombstones and
\* mask.
apply_edit(self, new_rev, new_text, new_tombstones, new_deletes_from_union) ==
    [self EXCEPT !.rev_counter = self.rev_counter + 1,
                 !.revs = Append(self.revs, new_rev),
                 !.text = new_text,
                 !.tombstones = new_tombstones,
                 !.deletes_from_union = new_deletes_from_union]

\* Buffer::add_delta
add_delta(self, delta) ==
    LET g == calculate_undo_group(self)
        s1 == [g.self EXCEPT !.last_edit_type = self.this_edit_type]
        m == mk_new_rev(s1, g.undo_group, delta)
    IN  apply_edit([s1 EXCEPT !.atomic_rev = m.atomic],
                   m.rev, m.text, m.tombstones, m.deletes_from_union)

\* Buffer::deletes_from_union_before_index(rev_index, invert_undos): the
\* revisions revs[rev_index..] (0-based) are inverted from the present
\* backwards; k is the 1-based position of the revision inverted next.
RECURSIVE InvertRevs(_, _, _, _, _)
InvertRevs(self, k, rev_index, invert_undos, acc) ==
    IF k <= rev_index THEN acc.deletes_from_union
    ELSE LET r == self.revs[k]
             d == acc.deletes_from_union
         IN  IF r.kind = "Edit" THEN
                 InvertRevs(self, k - 1, rev_index, invert_undos,
                     [acc EXCEPT !.deletes_from_union =
                         IF r.undo_group \in acc.undone_groups
                         THEN TransformShrink(d, r.inserts)
                         ELSE TransformShrink(SubsetSubtract(d, r.deletes), r.inserts)])
             ELSE IF invert_undos THEN
                 InvertRevs(self, k - 1, rev_index, invert_undos,
                     [deletes_from_union |-> SubsetBitxor(d, r.deletes_bitxor),
                      undone_groups |-> SymDiff(acc.undone_groups, r.toggled_groups)])
             ELSE InvertRevs(self, k - 1, rev_index, invert_undos, acc)

deletes_from_union_before_index(self, rev_index, invert_undos) ==
    InvertRevs(self, Len(self.revs), rev_index, invert_undos,
               [deletes_from_union |-> self.deletes_from_union,
                undone_groups |-> self.undone_groups])

\* Variant of deletes_from_union_for_index that does not invert the Undo
\* revisions it walks over.
deletes_from_union_for_index_keeps_undos(self, rev_index) ==
    deletes_from_union_before_index(self, rev_index + 1, FALSE)

\* Buffer::deletes_from_union_for_index
deletes_from_union_for_index(self, rev_index) ==
    deletes_from_union_before_index(self, rev_index + 1, TRUE)

\* Buffer::deletes_from_cur_union_for_index
RECURSIVE ExtendByInserts(_, _, _)
ExtendByInserts(self, k, d) ==
    IF k > Len(self.revs) THEN d
    ELSE LET r == self.revs[k] IN
         ExtendByInserts(self, k + 1,
             IF r.kind = "Edit" /\ ~SubsetIsEmpty(r.inserts)
             THEN TransformUnion(d, r.inserts) ELSE d)

deletes_from_cur_union_for_index(self, rev_index) ==
    ExtendByInserts(self, rev_index + 2, deletes_from_union_for_index(self, rev_index))

\* Buffer::find_rev: the 0-based index of the last revision numbered rev_id,
\* -1 for None.
find_rev(self, rev_id) ==
    LET found == {k \in 1..Len(self.revs) : self.revs[k].num = rev_id}
    IN  IF found = {} THEN -1 ELSE (CHOOSE k \in found : \A j \in found : j <= k) - 1

\* is_equivalent_revision that compares revision numbers.
is_equivalent_revision_by_number(self, base_rev, other_rev) ==
    find_rev(self, base_rev) # -1 /\ base_rev = other_rev

\* is_equivalent_revision that compares how many characters the two masks
\* leave visible.
is_equivalent_revision_by_length(self, base_rev, other_rev) ==
    LET bi == find_rev(self, base_rev)
        oi == find_rev(self, other_rev)
    IN  /\ bi # -1
        /\ oi # -1
        /\ LenAfterDelete(deletes_from_cur_union_for_index(self, bi))
             = LenAfterDelete(deletes_from_cur_union_for_index(self, oi))

\* Buffer::is_equivalent_revision
is_equivalent_revision(self, base_rev, other_rev) ==
    LET bi == find_rev(self, base_rev)
        oi == find_rev(self, other_rev)
    IN  /\ bi # -1
        /\ oi # -1
        /\ deletes_from_cur_union_for_index(self, bi)
             = deletes_from_cur_union_for_index(self, oi)

\* Buffer::is_pristine
is_pristine(self) == is_equivalent_revision(self, self.pristine_rev_id, rev(self))

\* Variant of find_first_undo_candidate_index that looks for the highest
\* toggled group instead of the lowest.
find_first_undo_candidate_index_highest(self, toggled_groups) ==
    IF toggled_groups # {} THEN
        LET highest_group == CHOOSE g \in toggled_groups : \A h \in toggled_groups : h <= g
            below == {k \in 1..Len(self.revs) : self.revs[k].max_undo_so_far < highest_group}
        IN  IF below = {} THEN 0 ELSE CHOOSE k \in below : \A j \in below : j <= k
    ELSE Len(self.revs)

\* Buffer::find_first_undo_candidate_index (0-based index)
find_first_undo_candidate_index(self, toggled_groups) ==
    IF toggled_groups # {} THEN
        LET lowest_group == SetMin(toggled_groups)
            below == {k \in 1..Len(self.revs) : self.revs[k].max_undo_so_far < lowest_group}
        IN  IF below = {} THEN 0 ELSE CHOOSE k \in below : \A j \in below : j <= k
    ELSE Len(self.revs)

\* The forward replay without the deletes of the groups that stay applied.
RECURSIVE ReplayRevsWithoutDeletes(_, _, _, _)
ReplayRevsWithoutDeletes(self, k, groups, d) ==
    IF k > Len(self.revs) THEN d
    ELSE LET r == self.revs[k] IN
         ReplayRevsWithoutDeletes(self, k + 1, groups,
             IF r.kind # "Edit" THEN d
             ELSE IF r.undo_group \in groups
             THEN (IF ~SubsetIsEmpty(r.inserts) THEN TransformUnion(d, r.inserts) ELSE d)
             ELSE IF ~SubsetIsEmpty(r.inserts) THEN TransformExpand(d, r.inserts) ELSE d)

\* The forward replay of compute_undo over revs[first_candidate..].
RECURSIVE ReplayRevs(_, _, _, _)
ReplayRevs(self, k, groups, d) ==
    IF k > Len(self.revs) THEN d
    ELSE LET r == self.revs[k] IN
         ReplayRevs(self, k + 1, groups,
             IF r.kind # "Edit" THEN d
             ELSE IF r.undo_group \in groups
             THEN (IF ~SubsetIsEmpty(r.inserts) THEN TransformUnion(d, r.inserts) ELSE d)
             ELSE LET e == IF ~SubsetIsEmpty(r.inserts)
                           THEN TransformExpand(d, r.inserts) ELSE d
                  IN  IF ~SubsetIsEmpty(r.deletes) THEN SubsetUnion(e, r.deletes) ELSE e)

\* Variant of the walk for cursor_after that keeps the snapshot found so far
\* when an Edit of the group has none.
RECURSIVE GroupCursorAfterKeepsFound(_, _, _, _)
GroupCursorAfterKeepsFound(self, k, group, cursor) ==
    IF k > Len(self.revs) THEN cursor
    ELSE LET r == self.revs[k] IN
         IF r.kind = "Edit"
         THEN IF r.undo_group = group
              THEN GroupCursorAfterKeepsFound(self, k + 1, group,
                       IF r.cursor_after # NoCursor THEN r.cursor_after ELSE cursor)
              ELSE cursor
         ELSE GroupCursorAfterKeepsFound(self, k + 1, group, cursor)

\* cursor_after of compute_undo: the cursor_after of the last Edit of the
\* group of revs[first_candidate], walking forward until another group's Edit.
RECURSIVE GroupCursorAfter(_, _, _, _)
GroupCursorAfter(self, k, group, cursor) ==
    IF k > Len(self.revs) THEN cursor
    ELSE LET r == self.revs[k] IN
         IF r.kind = "Edit"
         THEN IF r.undo_group = group
              THEN GroupCursorAfter(self, k + 1, group, r.cursor_after)
              ELSE cursor
         ELSE GroupCursorAfter(self, k + 1, group, cursor)

\* Variant of compute_undo that records the target set in the revision
\* instead of the groups toggled.
compute_undo_records_target(self, groups) ==
    LET toggled_groups == SymDiff(self.undone_groups, groups)
        first_candidate == find_first_undo_candidate_index(self, toggled_groups)
        start == deletes_from_union_before_index(self, first_candidate, FALSE)
        deletes_from_union == ReplayRevs(self, first_candidate + 1, groups, start)
        has_candidate == first_candidate < Len(self.revs)
        cursor_before == IF has_candidate
                         THEN self.revs[first_candidate + 1].cursor_before
                         ELSE NoCursor
        cursor_after == IF has_candidate /\ self.revs[first_candidate + 1].kind = "Edit"
                        THEN GroupCursorAfter(self, first_candidate + 1,
                                 self.revs[first_candidate + 1].undo_group, NoCursor)
                        ELSE NoCursor
        deletes_bitxor == SubsetBitxor(self.deletes_from_union, deletes_from_union)
        max_undo_so_far == Last(self.revs).max_undo_so_far
    IN  [atomic |-> self.rev_counter,
         rev |-> UndoRevision(self.rev_counter, max_undo_so_far, groups,
                              deletes_bitxor, cursor_before, cursor_after),
         deletes_from_union |-> deletes_from_union]

\* compute_undo without the store into atomic_rev.
compute_undo_unpublished(self, groups) ==
    LET toggled_groups == SymDiff(self.undone_groups, groups)
        first_candidate == find_first_undo_candidate_index(self, toggled_groups)
        start == deletes_from_union_before_index(self, first_candidate, FALSE)
        deletes_from_union == ReplayRevs(self, first_candidate + 1, groups, start)
        has_candidate == first_candidate < Len(self.revs)
        cursor_before == IF has_candidate
                         THEN self.revs[first_candidate + 1].cursor_before
                         ELSE NoCursor
        cursor_after == IF has_candidate /\ self.revs[first_candidate + 1].kind = "Edit"
                        THEN GroupCursorAfter(self, first_candidate + 1,
                                 self.revs[first_candidate + 1].undo_group, NoCursor)
                        ELSE NoCursor
        deletes_bitxor == SubsetBitxor(self.deletes_from_union, deletes_from_union)
        max_undo_so_far == Last(self.revs).max_undo_so_far
    IN  [atomic |-> self.atomic_rev,
         rev |-> UndoRevision(self.rev_counter, max_undo_so_far, toggled_groups,
                              deletes_bitxor, cursor_before, cursor_after),
         deletes_from_union |-> deletes_from_union]

\* compute_undo that records as max_undo_so_far the largest group it
\* toggles.
compute_undo_max_of_toggled(self, groups) ==
    LET toggled_groups == SymDiff(self.undone_groups, groups)
        first_candidate == find_first_undo_candidate_index(self, toggled_groups)
        start == deletes_from_union_before_index(self, first_candidate, FALSE)
        deletes_from_union == ReplayRevs(self, first_candidate + 1, groups, start)
        has_candidate == first_candidate < Len(self.revs)
        cursor_before == IF has_candidate
                         THEN self.revs[first_candidate + 1].cursor_before
                         ELSE NoCursor
        cursor_after == IF has_candidate /\ self.revs[first_candidate + 1].kind = "Edit"
                        THEN GroupCursorAfter(self, first_candidate + 1,
                                 self.revs[first_candidate + 1].undo_group, NoCursor)
                        ELSE NoCursor
        deletes_bitxor == SubsetBitxor(self.deletes_from_union, deletes_from_union)
        max_undo_so_far == IF toggled_groups = {} THEN 0
                           ELSE CHOOSE g \in toggled_groups :
                                    \A h \in toggled_groups : h <= g
    IN  [atomic |-> self.rev_counter,
         rev |-> UndoRevision(self.rev_counter, max_undo_so_far, toggled_groups,
                              deletes_bitxor, cursor_before, cursor_after),
         deletes_from_union |-> deletes_from_union]

\* Buffer::compute_undo: (Revision, new deletes from union) and the value it
\* stores into atomic_rev.
compute_undo(self, groups) ==
    LET toggled_groups == SymDiff(self.undone_groups, groups)
        first_candidate == find_first_undo_candidate_index(self, toggled_groups)
        start == deletes_from_union_before_index(self, first_candidate, FALSE)
        deletes_from_union == ReplayRevs(self, first_candidate + 1, groups, start)
        has_candidate == first_candidate < Len(self.revs)
        cursor_before == IF has_candidate
                         THEN self.revs[first_candidate + 1].cursor_before
                         ELSE NoCursor
        cursor_after == IF has_candidate /\ self.revs[first_candidate + 1].kind = "Edit"
                        THEN GroupCursorAfter(self, first_candidate + 1,
                                 self.revs[first_candidate + 1].undo_group, NoCursor)
                        ELSE NoCursor
        deletes_bitxor == SubsetBitxor(self.deletes_from_union, deletes_from_union)
        max_undo_so_far == Last(self.revs).max_undo_so_far
    IN  [atomic |-> self.rev_counter,
         rev |-> UndoRevision(self.rev_counter, max_undo_so_far, toggled_groups,
                              deletes_bitxor, cursor_before, cursor_after),
         deletes_from_union |-> deletes_from_union]

\* undo that leaves undone_groups as it was.
undo_keeps_undone_groups(self, groups) ==
    LET c == compute_undo(self, groups)
        delta == Synthesize(self.tombstones, self.deletes_from_union, c.deletes_from_union)
        new_text == DeltaApply(delta, self.text)
        new_tombstones == shuffle_tombstones(self.text, self.tombstones,
                                             self.deletes_from_union, c.deletes_from_union)
    IN  apply_edit([self EXCEPT !.atomic_rev = c.atomic],
                   c.rev, new_text, new_tombstones, c.deletes_from_union)

\* Buffer::undo(groups)
undo(self, groups) ==
    LET c == compute_undo(self, groups)
        delta == Synthesize(self.tombstones, self.deletes_from_union, c.deletes_from_union)
        new_text == DeltaApply(delta, self.text)
        new_tombstones == shuffle_tombstones(self.text, self.tombstones,
                                             self.deletes_from_union, c.deletes_from_union)
    IN  apply_edit([self EXCEPT !.atomic_rev = c.atomic, !.undone_groups = groups],
                   c.rev, new_text, new_tombstones, c.deletes_from_union)

\* Variant of do_undo that leaves last_edit_type as it was.
do_undo_keeps_edit_type(self) ==
    IF self.cur_undo <= 1 THEN [ret |-> "None", self |-> self]
    ELSE LET cur == self.cur_undo - 1
             undos == self.undos \cup {self.live_undos[cur + 1]}
         IN  [ret |-> "Some",
              self |-> undo([self EXCEPT !.cur_undo = cur, !.undos = undos], undos)]

\* do_undo with the group read at cur_undo before it is decremented.
do_undo_stale_index(self) ==
    IF self.cur_undo <= 1 THEN [ret |-> "None", self |-> self]
    ELSE LET cur == self.cur_undo - 1
             undos == self.undos \cup {self.live_undos[cur]}
         IN  [ret |-> "Some",
              self |-> undo([self EXCEPT !.cur_undo = cur,
                                         !.undos = undos,
                                         !.last_edit_type = "Undo"],
                            undos)]

\* do_undo that notes the undo before it looks at cur_undo.
do_undo_marks_at_bottom(self) ==
    IF self.cur_undo <= 1
    THEN [ret |-> "None", self |-> [self EXCEPT !.last_edit_type = "Undo"]]
    ELSE LET cur == self.cur_undo - 1
             undos == self.undos \cup {self.live_undos[cur + 1]}
         IN  [ret |-> "Some",
              self |-> undo([self EXCEPT !.cur_undo = cur,
                                         !.undos = undos,
                                         !.last_edit_type = "Undo"],
                            undos)]

\* Buffer::do_undo: ret is "None" or "Some".
do_undo(self) ==
    IF self.cur_undo <= 1 THEN [ret |-> "None", self |-> self]
    ELSE LET cur == self.cur_undo - 1
             undos == self.undos \cup {self.live_undos[cur + 1]}
         IN  [ret |-> "Some",
              self |-> undo([self EXCEPT !.cur_undo = cur,
                                         !.undos = undos,
                                         !.last_edit_type = "Undo"],
                            undos)]

\* Variant of do_redo that takes the group to remove from the undone set at
\* the index below cur_undo, so that the redone group stays in the set.
do_redo_keeps_undone(self) ==
    IF self.cur_undo >= Len(self.live_undos) THEN [ret |-> "None", self |-> self]
    ELSE LET undos == self.undos \ {self.live_undos[self.cur_undo]}
         IN  [ret |-> "Some",
              self |-> undo([self EXCEPT !.undos = undos,
                                         !.cur_undo = self.cur_undo + 1,
                                         !.last_edit_type = "Redo"],
                            undos)]

\* Variant of do_redo that redoes the newest live group instead of the one
\* at cur_undo.
do_redo_newest_group(self) ==
    IF self.cur_undo >= Len(self.live_undos) THEN [ret |-> "None", self |-> self]
    ELSE LET undos == self.undos \ {self.live_undos[Len(self.live_undos)]}
         IN  [ret |-> "Some",
              self |-> undo([self EXCEPT !.undos = undos,
                                         !.cur_undo = self.cur_undo + 1,
                                         !.last_edit_type = "Redo"],
                            undos)]

\* Buffer::do_redo
do_redo(self) ==
    IF self.cur_undo >= Len(self.live_undos) THEN [ret |-> "None", self |-> self]
    ELSE LET undos == self.undos \ {self.live_undos[self.cur_undo + 1]}
         IN  [ret |-> "Some",
              self |-> undo([self EXCEPT !.undos = undos,
                                         !.cur_undo = self.cur_undo + 1,
                                         !.last_edit_type = "Redo"],
                            undos)]

\* The cursor that do_undo returns with Some: cursor_before of the revision
\* compute_undo builds.
do_undo_cursor_before(self) ==
    LET cur == self.cur_undo - 1
        undos == self.undos \cup {self.live_undos[cur + 1]}
    IN  compute_undo(self, undos).rev.cursor_before

\* The cursor that do_redo returns with Some: cursor_after of the revision
\* compute_undo builds.
do_redo_cursor_after(self) ==
    LET undos == self.undos \ {self.live_undos[self.cur_undo + 1]}
    IN  compute_undo(self, undos).rev.cursor_after

\* Delta::summary as apply_edit uses it: the interval of the base the delta
\* changes (what a leading Copy from 0 and a trailing Copy up to base_len
\* leave) and the length of what it puts there.
summary(delta) ==
    LET els == delta.els
        lead == els # <<>> /\ els[1].t = "Copy" /\ els[1].b = 0
        rest == IF lead THEN Tail(els) ELSE els
        trail == rest # <<>> /\ Last(rest).t = "Copy" /\ Last(rest).e = delta.base_len
        mid == IF trail THEN SubSeq(rest, 1, Len(rest) - 1) ELSE rest
    IN  [start |-> IF lead THEN els[1].e ELSE 0,
         end |-> IF trail THEN Last(rest).b ELSE delta.base_len,
         newlen |-> Len(Flatten([k \in 1..Len(mid) |->
                                    [j \in 1..ElemLen(mid[k]) |-> 0]]))]

\* Rope::line_of_offset: the newlines before the offset.
line_of_offset(text, offset) ==
    Cardinality({k \in 1..offset : text[k] = "\n"})

\* InvalLines whose new end line is looked up at the end of the old interval.
apply_edit_inval_lines_old_end(self, delta, new_text) ==
    LET iv == summary(delta)
        old_logical_end_line == line_of_offset(self.text, iv.end) + 1
        logical_start_line == line_of_offset(new_text, iv.start)
        new_logical_end_line == line_of_offset(new_text, Min(iv.end, Len(new_text))) + 1
    IN  [start_line |-> logical_start_line,
         inval_count |-> old_logical_end_line - logical_start_line,
         new_count |-> new_logical_end_line - logical_start_line,
         old_text |-> self.text]

\* The InvalLines Buffer::apply_edit returns for a delta that takes
\* self.text to new_text.
apply_edit_inval_lines(self, delta, new_text) ==
    LET iv == summary(delta)
        old_logical_end_line == line_of_offset(self.text, iv.end) + 1
        logical_start_line == line_of_offset(new_text, iv.start)
        new_logical_end_line == line_of_offset(new_text, iv.start + iv.newlen) + 1
    IN  [start_line |-> logical_start_line,
         inval_count |-> old_logical_end_line - logical_start_line,
         new_count |-> new_logical_end_line - logical_start_line,
         old_text |-> self.text]

\* The delta Buffer::undo synthesizes to go from self to the buffer the
\* undo or redo leaves.
undo_delta(self, new_self) ==
    Synthesize(self.tombstones, self.deletes_from_union, new_self.deletes_from_union)

\* init_content that adds its delta the way an edit does, in an undo group
\* of its own.
init_content_undoable(self, content) ==
    set_pristine(
        IF content # <<>>
        THEN add_delta([self EXCEPT !.this_edit_type = "Other"],
                       SimpleEdit(0, 0, content, 0))
        ELSE self)

\* Buffer::init_content
init_content(self, content) ==
    set_pristine(
        IF content # <<>> THEN
            LET delta == SimpleEdit(0, 0, content, 0)
                m == mk_new_rev(self, 0, delta)
            IN  apply_edit([self EXCEPT !.atomic_rev = m.atomic],
                           m.rev, m.text, m.tombstones, m.deletes_from_union)
        ELSE self)

\* Variant of reload that leaves this_edit_type as the previous call set it.
reload_keeps_edit_type(self, content, pristine) ==
    LET len == Len(self.text)
        delta == SimpleEdit(0, len, content, len)
        s1 == add_delta(self, delta)
    IN  IF pristine THEN set_pristine(s1) ELSE s1

\* Buffer::reload
reload(self, content, pristine) ==
    LET len == Len(self.text)
        delta == SimpleEdit(0, len, content, len)
        s1 == add_delta([self EXCEPT !.this_edit_type = "Other"], delta)
    IN  IF pristine THEN set_pristine(s1) ELSE s1

\* The comparator of Buffer::edit answers Less.
RegionLess(a, b) ==
    IF a.start = b.start /\ a.end = b.end THEN FALSE
    ELSE IF a.end = b.start THEN TRUE
    ELSE a.end < b.start

\* Rust's stable sort of a short slice: insertion sort, each element shifted
\* left past the elements it is less than.
RECURSIVE InsertTail(_, _)
InsertTail(sorted, x) ==
    IF sorted # <<>> /\ RegionLess(x, Last(sorted))
    THEN Append(InsertTail(SubSeq(sorted, 1, Len(sorted) - 1), x), Last(sorted))
    ELSE Append(sorted, x)

RECURSIVE SortPrefix(_, _)
SortPrefix(v, n) ==
    IF n = 0 THEN <<>> ELSE InsertTail(SortPrefix(v, n - 1), v[n])

sort_regions(interval_rope) == SortPrefix(interval_rope, Len(interval_rope))

RECURSIVE BuildRegions(_, _)
BuildRegions(bd, regions) ==
    IF regions = <<>> THEN bd
    ELSE BuildRegions(BuilderReplace(bd, Head(regions).start, Head(regions).end,
                                     Head(regions).rope),
                      Tail(regions))

RECURSIVE RegionsAccepted(_, _)
RegionsAccepted(bd, regions) ==
    IF regions = <<>> THEN TRUE
    ELSE /\ BuilderAccepts(bd, Head(regions).start)
         /\ RegionsAccepted(BuilderReplace(bd, Head(regions).start, Head(regions).end,
                                           Head(regions).rope),
                            Tail(regions))

\* The delta Buffer::edit builds from its (region, replacement) pairs.
edit_delta(self, interval_rope) ==
    BuilderBuild(BuildRegions(BuilderNew(Len(self.text)), sort_regions(interval_rope)))

\* edit that builds its delta from the first of the sorted regions alone.
edit_first_region(self, interval_rope, edit_type) ==
    add_delta([self EXCEPT !.this_edit_type = edit_type],
              BuilderBuild(BuildRegions(BuilderNew(Len(self.text)),
                                        SubSeq(sort_regions(interval_rope), 1, 1))))

\* Buffer::edit
edit(self, interval_rope, edit_type) ==
    add_delta([self EXCEPT !.this_edit_type = edit_type], edit_delta(self, interval_rope))

\* Buffer::normalize_line_endings: nd is what LineEnding::normalize_delta
\* answers for the text, no delta (nothing to normalise) or a delta.
normalize_line_endings(self, nd) ==
    IF ~nd.some THEN [ret |-> "None", self |-> self]
    ELSE [ret |-> "Some",
          self |-> add_delta([self EXCEPT !.this_edit_type = "NormalizeLineEndings"],
                             nd.delta)]

\* The two halves of a writing operation as another thread can tell them
\* apart.  Stored: the operation has run up to the return of mk_new_rev or
\* compute_undo, so the new number is in atomic_rev and nothing is installed;
\* new is what apply_edit is about to install.
add_delta_stored(self, delta) ==
    LET g == calculate_undo_group(self)
        s1 == [g.self EXCEPT !.last_edit_type = self.this_edit_type]
        m == mk_new_rev(s1, g.undo_group, delta)
    IN  [self |-> [s1 EXCEPT !.atomic_rev = m.atomic],
         new |-> [rev |-> m.rev, text |-> m.text, tombstones |-> m.tombstones,
                  deletes_from_union |-> m.deletes_from_union]]

init_content_stored(self, content) ==
    LET m == mk_new_rev(self, 0, SimpleEdit(0, 0, content, 0))
    IN  [self |-> [self EXCEPT !.atomic_rev = m.atomic],
         new |-> [rev |-> m.rev, text |-> m.text, tombstones |-> m.tombstones,
                  deletes_from_union |-> m.deletes_from_union]]

undo_stored(self, groups) ==
    LET c == compute_undo(self, groups)
        delta == Synthesize(self.tombstones, self.deletes_from_union, c.deletes_from_union)
    IN  [self |-> [self EXCEPT !.atomic_rev = c.atomic, !.undone_groups = groups],
         new |-> [rev |-> c.rev,
                  text |-> DeltaApply(delta, self.text),
                  tombstones |-> shuffle_tombstones(self.text, self.tombstones,
                                     self.deletes_from_union, c.deletes_from_union),
                  deletes_from_union |-> c.deletes_from_union]]

do_undo_stored(self) ==
    LET cur == self.cur_undo - 1
        undos == self.undos \cup {self.live_undos[cur + 1]}
    IN  undo_stored([self EXCEPT !.cur_undo = cur, !.undos = undos,
                                 !.last_edit_type = "Undo"], undos)

do_redo_stored(self) ==
    LET undos == self.undos \ {self.live_undos[self.cur_undo + 1]}
    IN  undo_stored([self EXCEPT !.cur_undo = self.cur_undo + 1, !.undos = undos,
                                 !.last_edit_type = "Redo"], undos)

\* The second half: apply_edit installs what the first half prepared.
Installed(p) ==
    apply_edit(p.self, p.new.rev, p.new.text, p.new.tombstones, p.new.deletes_from_union)

\* ------------------------------------------------------------ the machine
\* Ropes here hold no carriage return, so the line-ending normalisation of
\* new, init_content, reload and edit leaves every rope as it is.
VARIABLES
    buf,        \* the Buffer
    union_str,  \* the union string: every character ever inserted, in place
    union_grp,  \* for each character of the union string, the undo group
                \* that inserted it (-1: the text given to Buffer::new)
    ops,        \* the operations performed so far, with what each left behind
    diff,       \* the DiffInfo under classification and its two results
    app         \* what runs beside the buffer: a writer between its two
                \* steps, a reader of atomic_rev, a diff job and its views

vars == <<buf, union_str, union_grp, ops, diff, app>>

\* The characters of a run are all different: Buffer::new is given "" or
\* "a", init_content "xy", and the operation that creates revision n inserts
\* Fresh(n).
InitTexts == {<<>>, <<"a">>}
InitContents == {<<>>, <<"x", "y">>}
Fresh(n) == <<"c", "d", "e", "f", "g", "h", "i", "j">>[n]
EditTypes == {"InsertChars", "Delete", "Other"}

Region(start, end, rope) == [start |-> start, end |-> end, rope |-> rope]

\* The single-region edits offered at a buffer: type a character at any
\* offset, delete any one character, replace any one character.
SingleRegions(self) ==
    LET c == <<Fresh(self.rev_counter)>>
        len == Len(self.text)
    IN  {<<Region(p, p, c)>> : p \in 0..len}
        \cup {<<Region(p, p + 1, <<>>)>> : p \in 0..(len - 1)}
        \cup {<<Region(p, p + 1, c)>> : p \in 0..(len - 1)}

Op(name, ret, self, edit_type) ==
    [op |-> name, ret |-> ret, text |-> self.text, tombstones |-> self.tombstones,
     edit_type |-> edit_type, nrevs |-> Len(self.revs),
     undone |-> self.undone_groups,
     rev |-> rev(self), atomic_rev |-> self.atomic_rev,
     rev_counter |-> self.rev_counter,
     cur_undo |-> self.cur_undo, live_undos |-> self.live_undos,
     undos |-> self.undos, undo_group_id |-> self.undo_group_id,
     is_pristine |-> is_pristine(self)]

\* The characters a delta inserts, in order.
InsertedChars(delta) ==
    Flatten([k \in 1..Len(delta.els) |-> delta.els[k].s])

\* The union string after an Edit revision: the inserted characters take the
\* places the revision's inserts name, the old characters keep their order.
GrowUnion(old, inserts, chars) ==
    [i \in 1..Len(inserts) |->
        IF inserts[i] > 0 THEN chars[i - ZerosBefore(inserts, i)]
        ELSE old[ZerosBefore(inserts, i)]]

\* The ghost variables after an operation that appended an Edit revision
\* for delta.
Grown(self, delta) ==
    LET r == Last(self.revs)
        chars == InsertedChars(delta)
    IN  /\ union_str' = GrowUnion(union_str, r.inserts, chars)
        /\ union_grp' = GrowUnion(union_grp, r.inserts,
                                  [i \in 1..Len(chars) |-> r.undo_group])

NoDiff == [changes |-> <<>>, left |-> <<>>, right |-> <<>>, done |-> FALSE]
NoApp == [kind |-> "none"]

Init ==
    \E t \in InitTexts :
        /\ buf = BufferNew(t)
        /\ union_str = t
        /\ union_grp = [i \in 1..Len(t) |-> -1]
        /\ ops = <<Op("new", "Some", BufferNew(t), "Other")>>
        /\ diff = NoDiff
        /\ app = NoApp

CanAct == Len(ops) < MaxOps

Edit ==
    /\ CanAct
    /\ Len(buf.text) <= MaxText
    /\ \E regions \in SingleRegions(buf), et \in EditTypes :
        /\ RegionsAccepted(BuilderNew(Len(buf.text)), sort_regions(regions))
        /\ buf' = edit(buf, regions, et)
        /\ Grown(buf', edit_delta(buf, regions))
        /\ ops' = Append(ops, Op("edit", "Some", buf', et))
    /\ UNCHANGED <<diff, app>>

\* init_content is given to a buffer made by Buffer::new("") and not touched
\* since.
InitContent ==
    /\ CanAct
    /\ Len(ops) = 1
    /\ buf.text = <<>>
    /\ \E content \in InitContents :
        /\ buf' = init_content(buf, content)
        /\ IF content # <<>>
           THEN Grown(buf', SimpleEdit(0, 0, content, 0))
           ELSE UNCHANGED <<union_str, union_grp>>
        /\ ops' = Append(ops, Op("init_content", "Some", buf', "Other"))
    /\ UNCHANGED <<diff, app>>

\* The contents given to reload: one fresh character, or, for a buffer that
\* shows text, the empty content.
ReloadInputs(self) ==
    {<<Fresh(self.rev_counter)>>} \cup (IF self.text # <<>> THEN {<<>>} ELSE {})

Reload ==
    /\ CanAct
    /\ \E content \in ReloadInputs(buf), pristine \in BOOLEAN :
        /\ content = <<>> => ~pristine
        /\ buf' = reload(buf, content, pristine)
        /\ Grown(buf', SimpleEdit(0, Len(buf.text), content, Len(buf.text)))
        /\ ops' = Append(ops, Op(IF pristine THEN "reload_pristine" ELSE "reload",
                                 "Some", buf', "Other"))
    /\ UNCHANGED <<diff, app>>

\* A do_undo() or do_redo() that returns None is not recorded in ops.
DoUndo ==
    /\ CanAct
    /\ buf' = do_undo(buf).self
    /\ ops' = IF do_undo(buf).ret = "Some"
              THEN Append(ops, Op("undo", "Some", buf', "Undo")) ELSE ops
    /\ UNCHANGED <<union_str, union_grp, diff, app>>

DoRedo ==
    /\ CanAct
    /\ buf' = do_redo(buf).self
    /\ ops' = IF do_redo(buf).ret = "Some"
              THEN Append(ops, Op("redo", "Some", buf', "Redo")) ELSE ops
    /\ UNCHANGED <<union_str, union_grp, diff, app>>

\* set_pristine() is not recorded in ops either: pristine_rev_id names the
\* revision, hence the operation, it was called after.
SetPristine ==
    /\ CanAct
    /\ buf' = set_pristine(buf)
    /\ UNCHANGED <<union_str, union_grp, ops, diff, app>>

ResetEditType ==
    /\ CanAct
    /\ buf' = reset_edit_type(buf)
    /\ ops' = Append(ops, Op("reset_edit_type", "Some", buf', "Other"))
    /\ UNCHANGED <<union_str, union_grp, diff, app>>

Next ==
    \/ Edit
    \/ InitContent
    \/ Reload
    \/ DoUndo
    \/ DoRedo
    \/ SetPristine
    \/ ResetEditType

Spec == Init /\ [][Next]_vars

\* The undo primitive called with any set of the groups made so far: groups
\* toggled in any combination, not in stack order.
CanToggle == Len(ops) < MaxSelOps

SelEdit ==
    /\ CanToggle
    /\ Len(buf.text) <= MaxText
    /\ \E regions \in SingleRegions(buf), et \in {"InsertChars", "Other"} :
        /\ buf' = edit(buf, regions, et)
        /\ Grown(buf', edit_delta(buf, regions))
        /\ ops' = Append(ops, Op("edit", "Some", buf', et))
    /\ UNCHANGED <<diff, app>>

Toggle ==
    /\ CanToggle
    /\ \E groups \in SUBSET (1..(buf.undo_group_id - 1)) :
        /\ buf' = undo(buf, groups)
        /\ ops' = Append(ops, Op("toggle", "Some", buf', "Other"))
    /\ UNCHANGED <<union_str, union_grp, diff, app>>

NextSel == SelEdit \/ Toggle

SpecSel == Init /\ [][NextSel]_vars

\* Typing at the end of the text: a character typed (InsertChars), a
\* character pasted (Other), the last character deleted (Delete).  Fewer
\* inputs than Edit, for longer runs.
TypingEdits(self) ==
    LET c == <<Fresh(self.rev_counter)>>
        len == Len(self.text)
    IN  {[regions |-> <<Region(len, len, c)>>, edit_type |-> "InsertChars"],
         [regions |-> <<Region(len, len, c)>>, edit_type |-> "Other"]}
        \cup (IF len > 0
              THEN {[regions |-> <<Region(len - 1, len, <<>>)>>, edit_type |-> "Delete"]}
              ELSE {})

CanType == Len(ops) < MaxTypingOps

Type ==
    /\ CanType
    /\ \E e \in TypingEdits(buf) :
        /\ buf' = edit(buf, e.regions, e.edit_type)
        /\ Grown(buf', edit_delta(buf, e.regions))
        /\ ops' = Append(ops, Op("edit", "Some", buf', e.edit_type))
    /\ UNCHANGED <<diff, app>>

TypingUndo ==
    /\ CanType
    /\ do_undo(buf).ret = "Some"
    /\ buf' = do_undo(buf).self
    /\ ops' = Append(ops, Op("undo", "Some", buf', "Undo"))
    /\ UNCHANGED <<union_str, union_grp, diff, app>>

TypingRedo ==
    /\ CanType
    /\ do_redo(buf).ret = "Some"
    /\ buf' = do_redo(buf).self
    /\ ops' = Append(ops, Op("redo", "Some", buf', "Redo"))
    /\ UNCHANGED <<union_str, union_grp, diff, app>>

TypingSetPristine ==
    /\ CanType
    /\ buf' = set_pristine(buf)
    /\ UNCHANGED <<union_str, union_grp, ops, diff, app>>

NextTyping == Type \/ TypingUndo \/ TypingRedo \/ TypingSetPristine

SpecTyping == Init /\ [][NextTyping]_vars

\* Typing on a buffer that may have been given its initial content first.
InitialType ==
    /\ Len(ops) < MaxInitialOps
    /\ Type

InitialUndo ==
    /\ Len(ops) < MaxInitialOps
    /\ TypingUndo

InitialRedo ==
    /\ Len(ops) < MaxInitialOps
    /\ TypingRedo

NextInitial == InitContent \/ InitialType \/ InitialUndo \/ InitialRedo

SpecInitial == Init /\ [][NextInitial]_vars

\* Typing with every do_undo() and do_redo() recorded, the ones that return
\* None too, each with the whole buffer it left behind.
HistOp(name, ret, self, edit_type) ==
    [op |-> name, ret |-> ret, edit_type |-> edit_type, self |-> self]

InitHist ==
    \E t \in InitTexts :
        /\ buf = BufferNew(t)
        /\ union_str = t
        /\ union_grp = [i \in 1..Len(t) |-> -1]
        /\ ops = <<HistOp("new", "Some", BufferNew(t), "Other")>>
        /\ diff = NoDiff
        /\ app = NoApp

CanHist == Len(ops) < MaxHistOps

HistEdit ==
    /\ CanHist
    /\ \E e \in TypingEdits(buf) :
        /\ buf' = edit(buf, e.regions, e.edit_type)
        /\ Grown(buf', edit_delta(buf, e.regions))
        /\ ops' = Append(ops, HistOp("edit", "Some", buf', e.edit_type))
    /\ UNCHANGED <<diff, app>>

HistUndo ==
    /\ CanHist
    /\ buf' = do_undo(buf).self
    /\ ops' = Append(ops, HistOp("undo", do_undo(buf).ret, buf', "Undo"))
    /\ UNCHANGED <<union_str, union_grp, diff, app>>

HistRedo ==
    /\ CanHist
    /\ buf' = do_redo(buf).self
    /\ ops' = Append(ops, HistOp("redo", do_redo(buf).ret, buf', "Redo"))
    /\ UNCHANGED <<union_str, union_grp, diff, app>>

HistReload ==
    /\ CanHist
    /\ \E content \in ReloadInputs(buf) :
        /\ buf' = reload(buf, content, FALSE)
        /\ Grown(buf', SimpleEdit(0, Len(buf.text), content, Len(buf.text)))
        /\ ops' = Append(ops, HistOp("reload", "Some", buf', "Other"))
    /\ UNCHANGED <<diff, app>>

NextHist == HistEdit \/ HistUndo \/ HistRedo \/ HistReload

SpecHist == InitHist /\ [][NextHist]_vars

\* ------------------------------------------------- lines to redraw
\* Texts with line breaks: every edit, undo and redo is recorded with the
\* delta it applied and the InvalLines it returned.
LineOp(name, self, delta, inval) ==
    [op |-> name, self |-> self, delta |-> delta, inval |-> inval]

LineEdits(self) ==
    LET len == Len(self.text)
        ropes == {<<"\n">>, <<Fresh(self.rev_counter)>>}
    IN  {[regions |-> <<Region(p, p, c)>>, edit_type |-> "InsertChars"] :
            p \in 0..len, c \in ropes}
        \cup {[regions |-> <<Region(p, p + 1, <<>>)>>, edit_type |-> "Delete"] :
                p \in 0..(len - 1)}
        \cup {[regions |-> <<Region(p, p + 1, c)>>, edit_type |-> "Other"] :
                p \in 0..(len - 1), c \in ropes}

InitLines ==
    \E t \in {<<>>, <<"a", "\n">>} :
        /\ buf = BufferNew(t)
        /\ union_str = t
        /\ union_grp = [i \in 1..Len(t) |-> -1]
        /\ ops = <<LineOp("new", BufferNew(t), MkDelta(<<>>, 0),
                          apply_edit_inval_lines(BufferNew(<<>>), MkDelta(<<>>, 0), <<>>))>>
        /\ diff = NoDiff
        /\ app = NoApp

CanLines == Len(ops) < MaxLineOps

LinesEdit ==
    /\ CanLines
    /\ \E e \in LineEdits(buf) :
        LET delta == edit_delta(buf, e.regions) IN
        /\ buf' = edit(buf, e.regions, e.edit_type)
        /\ Grown(buf', delta)
        /\ ops' = Append(ops, LineOp("edit", buf', delta,
                                     apply_edit_inval_lines(buf, delta, buf'.text)))
    /\ UNCHANGED <<diff, app>>

LinesUndo ==
    /\ CanLines
    /\ do_undo(buf).ret = "Some"
    /\ buf' = do_undo(buf).self
    /\ ops' = Append(ops, LineOp("undo", buf', undo_delta(buf, buf'),
                                 apply_edit_inval_lines(buf, undo_delta(buf, buf'), buf'.text)))
    /\ UNCHANGED <<union_str, union_grp, diff, app>>

LinesRedo ==
    /\ CanLines
    /\ do_redo(buf).ret = "Some"
    /\ buf' = do_redo(buf).self
    /\ ops' = Append(ops, LineOp("redo", buf', undo_delta(buf, buf'),
                                 apply_edit_inval_lines(buf, undo_delta(buf, buf'), buf'.text)))
    /\ UNCHANGED <<union_str, union_grp, diff, app>>

NextLines == LinesEdit \/ LinesUndo \/ LinesRedo

SpecLines == InitLines /\ [][NextLines]_vars

\* ------------------------------------------- a writer beside a reader
\* Every writing operation in its two halves, and beside it a thread that
\* holds the Arc of atomic_rev: it loads the number at any moment, and reads
\* the text (with the revision the text belongs to) only between operations,
\* when no &mut Buffer is out.  The reader does both once, in the order
\* chosen at the start.
NoPending == [busy |-> FALSE]
NoDelta == [some |-> FALSE]
SomeDelta(delta) == [some |-> TRUE, delta |-> delta]
ReaderOrders == {"load_then_read", "read_then_load"}

\* What LineEnding::normalize_delta may answer: nothing to normalise, or a
\* delta that deletes one character (the "\r" of a "\r\n"), here the last
\* but one of the text or its only one.
NormalizeDeltas(text) ==
    {NoDelta} \cup {SomeDelta(SimpleEdit(p, p + 1, <<>>, Len(text))) :
                        p \in {Max(Len(text) - 2, 0)} \cap 0..(Len(text) - 1)}

\* The edits of the writer: a character typed at the end, the last character
\* deleted.
AtomicEdits(self) == {e \in TypingEdits(self) : e.edit_type # "Other"}

InitAtomic ==
    \E t \in InitTexts, order \in ReaderOrders :
        /\ buf = BufferNew(t)
        /\ union_str = t
        /\ union_grp = [i \in 1..Len(t) |-> -1]
        /\ ops = <<Op("new", "Some", BufferNew(t), "Other")>>
        /\ diff = NoDiff
        /\ app = [pending |-> NoPending,
                  reader |-> [pc |-> "start", order |-> order, atomic |-> 0, num |-> 0],
                  stores |-> <<BufferNew(t).atomic_rev>>]

CanWrite == ~app.pending.busy /\ Len(ops) < MaxAtomicOps

\* The first half of an operation: p is the buffer with the number stored and
\* what is about to be installed.
Begin(p, name, edit_type, nd, pristine) ==
    /\ buf' = p.self
    /\ app' = [app EXCEPT !.pending = [busy |-> TRUE, p |-> p, op |-> name,
                                       edit_type |-> edit_type, nd |-> nd,
                                       pristine |-> pristine],
                          !.stores = Append(@, p.self.atomic_rev)]
    /\ UNCHANGED <<union_str, union_grp, ops, diff>>

AtomicEdit ==
    /\ CanWrite
    /\ \E e \in AtomicEdits(buf) :
        LET delta == edit_delta(buf, e.regions) IN
        Begin(add_delta_stored([buf EXCEPT !.this_edit_type = e.edit_type], delta),
              "edit", e.edit_type, SomeDelta(delta), FALSE)

AtomicInitContent ==
    /\ CanWrite
    /\ Len(ops) = 1
    /\ buf.text = <<>>
    /\ \E content \in InitContents \ {<<>>} :
        Begin(init_content_stored(buf, content), "init_content", "Other",
              SomeDelta(SimpleEdit(0, 0, content, 0)), TRUE)

AtomicReload ==
    /\ CanWrite
    /\ \E pristine \in BOOLEAN :
        LET len == Len(buf.text)
            delta == SimpleEdit(0, len, <<Fresh(buf.rev_counter)>>, len)
        IN  Begin(add_delta_stored([buf EXCEPT !.this_edit_type = "Other"], delta),
                  IF pristine THEN "reload_pristine" ELSE "reload", "Other",
                  SomeDelta(delta), pristine)

AtomicNormalize ==
    /\ CanWrite
    /\ \E nd \in NormalizeDeltas(buf.text) :
        IF nd.some
        THEN Begin(add_delta_stored(
                       [buf EXCEPT !.this_edit_type = "NormalizeLineEndings"], nd.delta),
                   "normalize_line_endings", "NormalizeLineEndings", nd, FALSE)
        ELSE /\ buf' = normalize_line_endings(buf, nd).self
             /\ UNCHANGED <<union_str, union_grp, ops, diff, app>>

AtomicUndo ==
    /\ CanWrite
    /\ buf.cur_undo > 1
    /\ Begin(do_undo_stored(buf), "undo", "Undo", NoDelta, FALSE)

AtomicRedo ==
    /\ CanWrite
    /\ buf.cur_undo < Len(buf.live_undos)
    /\ Begin(do_redo_stored(buf), "redo", "Redo", NoDelta, FALSE)

\* The second half: apply_edit, and the set_pristine() that init_content and
\* reload end with.
Install ==
    /\ app.pending.busy
    /\ LET pd == app.pending
           done == Installed(pd.p)
       IN  /\ buf' = IF pd.pristine THEN set_pristine(done) ELSE done
           /\ IF pd.nd.some THEN Grown(buf', pd.nd.delta)
              ELSE UNCHANGED <<union_str, union_grp>>
           /\ ops' = Append(ops, Op(pd.op, "Some", buf', pd.edit_type))
    /\ app' = [app EXCEPT !.pending = NoPending]
    /\ UNCHANGED diff

\* atomic_rev.load(): at any moment, between the two halves too.
ReaderLoad ==
    /\ \/ app.reader.order = "load_then_read" /\ app.reader.pc = "start"
       \/ app.reader.order = "read_then_load" /\ app.reader.pc = "mid"
    /\ app' = [app EXCEPT !.reader.atomic = buf.atomic_rev,
                          !.reader.pc = IF @ = "start" THEN "mid" ELSE "done"]
    /\ UNCHANGED <<buf, union_str, union_grp, ops, diff>>

\* The text is read with the revision it belongs to, between operations.
ReaderRead ==
    /\ ~app.pending.busy
    /\ \/ app.reader.order = "read_then_load" /\ app.reader.pc = "start"
       \/ app.reader.order = "load_then_read" /\ app.reader.pc = "mid"
    /\ app' = [app EXCEPT !.reader.num = rev(buf),
                          !.reader.pc = IF @ = "start" THEN "mid" ELSE "done"]
    /\ UNCHANGED <<buf, union_str, union_grp, ops, diff>>

NextAtomic ==
    \/ AtomicEdit
    \/ AtomicInitContent
    \/ AtomicReload
    \/ AtomicNormalize
    \/ AtomicUndo
    \/ AtomicRedo
    \/ Install
    \/ ReaderLoad
    \/ ReaderRead

SpecAtomic == InitAtomic /\ [][NextAtomic]_vars

\* ------------------------------------------------------ the diff editor
\* DiffEditorData::listen_diff_changes: buf is the buffer of the left
\* editor, app.right the buffer of the right one.  All of it runs on the UI
\* thread except rope_diff, so buffer operations are whole steps here.
NormalView == [kind |-> "Normal"]
DiffView(is_right, changes) ==
    [kind |-> "Diff", is_right |-> is_right, changes |-> changes]

\* What rope_diff answers: the changes between the two ropes it was given,
\* or nothing when it gave up because the right buffer had moved on.
NoChanges == [some |-> FALSE]
rope_diff(left_rope, right_rope) ==
    [some |-> TRUE, changes |-> [left |-> left_rope, right |-> right_rope]]

\* send without the comparison for the right buffer.
send_unchecked_right(job, changes, left_atomic_rev, right_atomic_rev, views) ==
    IF ~changes.some THEN views
    ELSE IF left_atomic_rev # job.left_rev THEN views
    ELSE [left |-> DiffView(FALSE, changes.changes),
          right |-> DiffView(TRUE, changes.changes)]

\* The closure given to create_ext_action, run when the worker's result
\* arrives: the views after it.
send(job, changes, left_atomic_rev, right_atomic_rev, views) ==
    IF ~changes.some THEN views
    ELSE IF left_atomic_rev # job.left_rev THEN views
    ELSE IF right_atomic_rev # job.right_rev THEN views
    ELSE [left |-> DiffView(FALSE, changes.changes),
          right |-> DiffView(TRUE, changes.changes)]

\* What the effect captures: the two numbers of the memos, the two ropes, and
\* (for the claims) how many operations each buffer had seen by then.
Snapshot ==
    [left_rev |-> rev(buf), right_rev |-> rev(app.right),
     left_rope |-> buf.text, right_rope |-> app.right.text,
     left_ops |-> app.nops.left, right_ops |-> app.nops.right,
     computed |-> FALSE, changes |-> NoChanges]

InitJob ==
    \E t \in InitTexts :
        /\ buf = BufferNew(t)
        /\ union_str = t
        /\ union_grp = [i \in 1..Len(t) |-> -1]
        /\ ops = <<Op("new", "Some", BufferNew(t), "Other")>>
        /\ diff = NoDiff
        /\ app = [right |-> BufferNew(<<"a">>),
                  views |-> [left |-> NormalView, right |-> NormalView],
                  jobs |-> <<>>,
                  spawned |-> 0,
                  seen |-> <<-1, -1>>,
                  nops |-> [left |-> 0, right |-> 0],
                  log |-> <<>>]

\* An edit, a do_undo() or a do_redo() of one buffer.
BufferSteps(self) ==
    {edit(self, e.regions, e.edit_type) : e \in AtomicEdits(self)}
    \cup (IF do_undo(self).ret = "Some" THEN {do_undo(self).self} ELSE {})
    \cup (IF do_redo(self).ret = "Some" THEN {do_redo(self).self} ELSE {})

CanStep == app.nops.left + app.nops.right < MaxJobOps

LeftStep ==
    /\ CanStep
    /\ \E b \in BufferSteps(buf) : buf' = b
    /\ app' = [app EXCEPT !.nops.left = @ + 1]
    /\ UNCHANGED <<union_str, union_grp, ops, diff>>

RightStep ==
    /\ CanStep
    /\ \E b \in BufferSteps(app.right) :
        app' = [app EXCEPT !.right = b, !.nops.right = @ + 1]
    /\ UNCHANGED <<buf, union_str, union_grp, ops, diff>>

\* The effect runs when a memo of (content, rev) has changed: it captures the
\* snapshot and spawns the worker.
JobEffect ==
    /\ app.spawned < MaxJobs
    /\ app.seen # <<rev(buf), rev(app.right)>>
    /\ app' = [app EXCEPT !.jobs = Append(@, Snapshot),
                          !.spawned = @ + 1,
                          !.seen = <<rev(buf), rev(app.right)>>]
    /\ UNCHANGED <<buf, union_str, union_grp, ops, diff>>

\* The worker: rope_diff over the captured ropes.
JobCompute ==
    /\ \E i \in 1..Len(app.jobs) :
        /\ ~app.jobs[i].computed
        /\ \E c \in {rope_diff(app.jobs[i].left_rope, app.jobs[i].right_rope)}
                    \cup (IF app.right.atomic_rev # app.jobs[i].right_rev
                          THEN {NoChanges} ELSE {}) :
            app' = [app EXCEPT !.jobs[i].computed = TRUE, !.jobs[i].changes = c]
    /\ UNCHANGED <<buf, union_str, union_grp, ops, diff>>

\* The result arrives on the UI thread, in any order among the jobs.
JobDeliver ==
    /\ \E i \in 1..Len(app.jobs) :
        LET job == app.jobs[i]
            views == send(job, job.changes, buf.atomic_rev, app.right.atomic_rev,
                          app.views)
        IN  /\ job.computed
            /\ app' = [app EXCEPT
                   !.views = views,
                   !.jobs = SubSeq(@, 1, i - 1) \o SubSeq(@, i + 1, Len(@)),
                   !.log = Append(@, [job |-> job,
                                      left_atomic_rev |-> buf.atomic_rev,
                                      right_atomic_rev |-> app.right.atomic_rev,
                                      nops |-> app.nops,
                                      views_before |-> app.views,
                                      views_after |-> views])]
    /\ UNCHANGED <<buf, union_str, union_grp, ops, diff>>

NextJob == LeftStep \/ RightStep \/ JobEffect \/ JobCompute \/ JobDeliver

SpecJob == InitJob /\ [][NextJob]_vars

\* The same views with the scheduling of the reactive runtime, the worker
\* pool and the UI callback: the effect runs after every change of a memo,
\* however many jobs it has spawned before, a spawned worker finishes, and a
\* finished result is handed to its callback.
LiveLeftStep ==
    /\ app.nops.left + app.nops.right < MaxLiveOps
    /\ LeftStep

LiveRightStep ==
    /\ app.nops.left + app.nops.right < MaxLiveOps
    /\ RightStep

\* The effect that is told of a change of the left memo only.
LiveEffectLeftMemo ==
    /\ app.seen[1] # rev(buf)
    /\ app' = [app EXCEPT !.jobs = Append(@, Snapshot),
                          !.spawned = @ + 1,
                          !.seen = <<rev(buf), rev(app.right)>>]
    /\ UNCHANGED <<buf, union_str, union_grp, ops, diff>>

LiveEffect ==
    /\ app.seen # <<rev(buf), rev(app.right)>>
    /\ app' = [app EXCEPT !.jobs = Append(@, Snapshot),
                          !.spawned = @ + 1,
                          !.seen = <<rev(buf), rev(app.right)>>]
    /\ UNCHANGED <<buf, union_str, union_grp, ops, diff>>

NextLive == LiveLeftStep \/ LiveRightStep \/ LiveEffect \/ JobCompute \/ JobDeliver

SpecLive ==
    /\ InitJob
    /\ [][NextLive]_vars
    /\ WF_vars(LiveEffect)
    /\ WF_vars(JobCompute)
    /\ WF_vars(JobDeliver)

\* ------------------------------------------------- a buffer and its clone
\* Buffer derives Clone and atomic_rev is an Arc<AtomicU64>: the cells are
\* app.cells, a buffer holds the index of its cell, and the atomic_rev field
\* of a buffer record is what the buffer's last own operation stored.
\* Variant of the clone that gives the copy a cell of its own.
clone_atomic_rev_own_cell(cells, handle) ==
    [cells |-> Append(cells, cells[handle]), handle |-> Len(cells) + 1]

\* Arc::clone, as the derived Buffer::clone calls it for atomic_rev: the
\* cells after the clone and the cell the copy holds.
clone_atomic_rev(cells, handle) ==
    [cells |-> cells, handle |-> handle]

NoClone == [some |-> FALSE]

InitClone ==
    \E t \in InitTexts :
        /\ buf = BufferNew(t)
        /\ union_str = t
        /\ union_grp = [i \in 1..Len(t) |-> -1]
        /\ ops = <<Op("new", "Some", BufferNew(t), "Other")>>
        /\ diff = NoDiff
        /\ app = [kind |-> "clone", cells |-> <<0>>, handle |-> 1,
                  clone |-> NoClone, published |-> 0, nops |-> 0]

CanClone == app.nops < MaxCloneOps

\* An edit, do_undo or do_redo of the original: it stores into the cell the
\* original holds.
OriginalStep ==
    /\ CanClone
    /\ \E b \in BufferSteps([buf EXCEPT !.atomic_rev = app.cells[app.handle]]) :
        /\ buf' = b
        /\ app' = [app EXCEPT !.cells[app.handle] = b.atomic_rev,
                              !.published = rev(b),
                              !.nops = @ + 1]
    /\ UNCHANGED <<union_str, union_grp, ops, diff>>

CloneBuffer ==
    /\ CanClone
    /\ ~app.clone.some
    /\ LET c == clone_atomic_rev(app.cells, app.handle) IN
        app' = [app EXCEPT !.cells = c.cells,
                           !.clone = [some |-> TRUE, self |-> buf, handle |-> c.handle],
                           !.nops = @ + 1]
    /\ UNCHANGED <<buf, union_str, union_grp, ops, diff>>

\* The same of the clone.
CloneStep ==
    /\ CanClone
    /\ app.clone.some
    /\ \E b \in BufferSteps([app.clone.self EXCEPT
                                  !.atomic_rev = app.cells[app.clone.handle]]) :
        app' = [app EXCEPT !.clone.self = b,
                           !.cells[app.clone.handle] = b.atomic_rev,
                           !.published = rev(b),
                           !.nops = @ + 1]
    /\ UNCHANGED <<buf, union_str, union_grp, ops, diff>>

NextClone == OriginalStep \/ CloneBuffer \/ CloneStep

SpecClone == InitClone /\ [][NextClone]_vars

\* -------------------------------------------- edits of several regions
\* One call of Buffer::edit with two or three regions, given in any order,
\* no two of them over the same interval and none overlapping another
\* (DeltaBuilder::replace asserts it); around it typing, do_undo() and
\* do_redo().
MultiTexts == {<<"a">>, <<"a", "b">>}
MultiChar(n, k) ==
    <<<<"A", "B", "C", "D">>, <<"E", "F", "G", "H">>, <<"I", "J", "K", "L">>,
      <<"M", "N", "O", "P">>, <<"Q", "R", "S", "T">>>>[n][k]

\* The regions offered as the k-th of an edit: a caret or one character,
\* replaced by nothing or by one new character.
RegionsAt(self, k) ==
    LET len == Len(self.text)
        c == <<MultiChar(self.rev_counter, k)>>
    IN  {rg \in {Region(pp[1], pp[2], rope) :
                    pp \in (0..len) \X (0..len), rope \in {<<>>, c}} :
            /\ rg.start <= rg.end
            /\ rg.end - rg.start <= 1
            /\ ~(rg.start = rg.end /\ rg.rope = <<>>)}

\* The lists of n regions: each longer list is an accepted one with one more
\* region.
RECURSIVE RegionListsOf(_, _)
RegionListsOf(self, n) ==
    IF n = 0 THEN {<<>>}
    ELSE {rs \in {Append(l, rg) : l \in RegionListsOf(self, n - 1),
                                  rg \in RegionsAt(self, n)} :
            /\ \A i \in 1..(n - 1) :
                <<rs[i].start, rs[i].end>> # <<rs[n].start, rs[n].end>>
            /\ RegionsAccepted(BuilderNew(Len(self.text)), sort_regions(rs))}

RegionLists(self) == UNION {RegionListsOf(self, n) : n \in 2..MaxRegions}

MultiOp(name, ret, self, edit_type, regions) ==
    [op |-> name, ret |-> ret, text |-> self.text, tombstones |-> self.tombstones,
     edit_type |-> edit_type, nrevs |-> Len(self.revs),
     undone |-> self.undone_groups, rev |-> rev(self),
     rev_counter |-> self.rev_counter, regions |-> regions]

InitMulti ==
    \E t \in MultiTexts :
        /\ buf = BufferNew(t)
        /\ union_str = t
        /\ union_grp = [i \in 1..Len(t) |-> -1]
        /\ ops = <<MultiOp("new", "Some", BufferNew(t), "Other", <<>>)>>
        /\ diff = NoDiff
        /\ app = NoApp

CanMulti == Len(ops) < MaxMultiOps

\* The edit of several regions comes first or right after one typed
\* character.
MultiEdit ==
    /\ CanMulti
    /\ \A n \in 2..Len(ops) : ops[n].op = "edit" /\ Len(ops[n].regions) = 1
    /\ Len(ops) <= 2
    /\ \E regions \in RegionLists(buf), et \in {"InsertChars", "Other"} :
        /\ buf' = edit(buf, regions, et)
        /\ Grown(buf', edit_delta(buf, regions))
        /\ ops' = Append(ops, MultiOp("edit", "Some", buf', et, regions))
    /\ UNCHANGED <<diff, app>>

MultiType ==
    /\ CanMulti
    /\ \E e \in AtomicEdits(buf) :
        /\ buf' = edit(buf, e.regions, e.edit_type)
        /\ Grown(buf', edit_delta(buf, e.regions))
        /\ ops' = Append(ops, MultiOp("edit", "Some", buf', e.edit_type, e.regions))
    /\ UNCHANGED <<diff, app>>

MultiUndo ==
    /\ CanMulti
    /\ do_undo(buf).ret = "Some"
    /\ buf' = do_undo(buf).self
    /\ ops' = Append(ops, MultiOp("undo", "Some", buf', "Undo", <<>>))
    /\ UNCHANGED <<union_str, union_grp, diff, app>>

MultiRedo ==
    /\ CanMulti
    /\ do_redo(buf).ret = "Some"
    /\ buf' = do_redo(buf).self
    /\ ops' = Append(ops, MultiOp("redo", "Some", buf', "Redo", <<>>))
    /\ UNCHANGED <<union_str, union_grp, diff, app>>

NextMulti == MultiEdit \/ MultiType \/ MultiUndo \/ MultiRedo

SpecMulti == InitMulti /\ [][NextMulti]_vars

\* ------------------------------------------------------ cursor snapshots
\* Typing with set_cursor_before() and set_cursor_after() called at any
\* time, do_undo() and do_redo(); every operation is recorded with the
\* buffer it left and the cursor it returned.
CursorTexts == {<<>>}

\* The snapshot offered to a setter names the side and the revision it is
\* taken at.
CursorAt(self, side) ==
    IF side = "before"
    THEN <<"b0", "b1", "b2", "b3", "b4", "b5", "b6", "b7", "b8", "b9">>[rev(self) + 1]
    ELSE <<"a0", "a1", "a2", "a3", "a4", "a5", "a6", "a7", "a8", "a9">>[rev(self) + 1]

CursorOp(name, ret, self, edit_type, cursor) ==
    [op |-> name, ret |-> ret, edit_type |-> edit_type, self |-> self,
     cursor |-> cursor]

InitCursor ==
    \E t \in CursorTexts :
        /\ buf = BufferNew(t)
        /\ union_str = t
        /\ union_grp = [i \in 1..Len(t) |-> -1]
        /\ ops = <<CursorOp("new", "Some", BufferNew(t), "Other", NoCursor)>>
        /\ diff = NoDiff
        /\ app = NoApp

CanCursor == Len(ops) < MaxCursorOps

CursorEdit ==
    /\ CanCursor
    /\ \E e \in AtomicEdits(buf) :
        /\ buf' = edit(buf, e.regions, e.edit_type)
        /\ Grown(buf', edit_delta(buf, e.regions))
        /\ ops' = Append(ops, CursorOp("edit", "Some", buf', e.edit_type, NoCursor))
    /\ UNCHANGED <<diff, app>>

SetCursorBefore ==
    /\ CanCursor
    /\ buf' = set_cursor_before(buf, CursorAt(buf, "before"))
    /\ ops' = Append(ops, CursorOp("set_cursor_before", "Some", buf', "Other", NoCursor))
    /\ UNCHANGED <<union_str, union_grp, diff, app>>

SetCursorAfter ==
    /\ CanCursor
    /\ buf' = set_cursor_after(buf, CursorAt(buf, "after"))
    /\ ops' = Append(ops, CursorOp("set_cursor_after", "Some", buf', "Other", NoCursor))
    /\ UNCHANGED <<union_str, union_grp, diff, app>>

CursorUndo ==
    /\ CanCursor
    /\ do_undo(buf).ret = "Some"
    /\ buf' = do_undo(buf).self
    /\ ops' = Append(ops, CursorOp("undo", "Some", buf', "Undo",
                                  do_undo_cursor_before(buf)))
    /\ UNCHANGED <<union_str, union_grp, diff, app>>

CursorRedo ==
    /\ CanCursor
    /\ do_redo(buf).ret = "Some"
    /\ buf' = do_redo(buf).self
    /\ ops' = Append(ops, CursorOp("redo", "Some", buf', "Redo",
                                  do_redo_cursor_after(buf)))
    /\ UNCHANGED <<union_str, union_grp, diff, app>>

NextCursor == CursorEdit \/ SetCursorBefore \/ SetCursorAfter \/ CursorUndo \/ CursorRedo

SpecCursor == InitCursor /\ [][NextCursor]_vars

\* ------------------------------------------------------- diff classifier
Range(start, end) == [start |-> start, end |-> end]
RangeLen(r) == IF r.end > r.start THEN r.end - r.start ELSE 0

Left(l) == [t |-> "Left", l |-> l, r |-> Range(0, 0)]
Right(r) == [t |-> "Right", l |-> Range(0, 0), r |-> r]
Both(l, r) == [t |-> "Both", l |-> l, r |-> r]

Empty(lines) == [t |-> "Empty", lines |-> lines]
Changed(lines) == [t |-> "Changed", lines |-> lines]

NoLine == [some |-> FALSE, lines |-> Range(0, 0)]
SomeLine(lines) == [some |-> TRUE, lines |-> lines]

\* left_changes that pads when the two sides are as long as each other.
RECURSIVE LeftFromPadsEqual(_, _, _, _)
LeftFromPadsEqual(changes, i, next, out) ==
    IF i > Len(changes) THEN out
    ELSE LET c == changes[i] IN
        IF c.t = "Left" THEN
            LET out1 == Append(out, Changed(c.l))
            IN  IF i < Len(changes) /\ changes[i + 1].t = "Right"
                THEN LET rd == changes[i + 1].r
                     IN  LeftFromPadsEqual(changes, i + 2, SomeLine(c.l),
                             IF RangeLen(c.l) <= RangeLen(rd)
                             THEN Append(out1, Empty(Range(c.l.end,
                                      c.l.end + RangeLen(rd) - RangeLen(c.l))))
                             ELSE out1)
                ELSE LeftFromPadsEqual(changes, i + 1, SomeLine(c.l), out1)
        ELSE IF c.t = "Both" THEN LeftFromPadsEqual(changes, i + 1, SomeLine(c.l), out)
        ELSE LeftFromPadsEqual(changes, i + 1, next,
                 Append(out, IF ~next.some
                             THEN Empty(Range(0, RangeLen(c.r)))
                             ELSE Empty(Range(next.lines.end,
                                              next.lines.end + RangeLen(c.r)))))

\* DiffInfo::left_changes: i is the next segment, next the last known left
\* range.
RECURSIVE LeftFrom(_, _, _, _)
LeftFrom(changes, i, next, out) ==
    IF i > Len(changes) THEN out
    ELSE LET c == changes[i] IN
        IF c.t = "Left" THEN
            LET out1 == Append(out, Changed(c.l))
            IN  IF i < Len(changes) /\ changes[i + 1].t = "Right"
                THEN LET rd == changes[i + 1].r
                     IN  LeftFrom(changes, i + 2, SomeLine(c.l),
                             IF RangeLen(c.l) < RangeLen(rd)
                             THEN Append(out1, Empty(Range(c.l.end,
                                      c.l.end + RangeLen(rd) - RangeLen(c.l))))
                             ELSE out1)
                ELSE LeftFrom(changes, i + 1, SomeLine(c.l), out1)
        ELSE IF c.t = "Both" THEN LeftFrom(changes, i + 1, SomeLine(c.l), out)
        ELSE LeftFrom(changes, i + 1, next,
                 Append(out, IF ~next.some
                             THEN Empty(Range(0, RangeLen(c.r)))
                             ELSE Empty(Range(next.lines.end, next.lines.end + RangeLen(c.r)))))

left_changes(changes) == LeftFrom(changes, 1, NoLine, <<>>)

\* right_changes that never pads a replacement: a Left with a Right after
\* it gives Changed over the Right alone.
RECURSIVE RightFromUnpadded(_, _, _, _)
RightFromUnpadded(changes, i, next, out) ==
    IF i > Len(changes) THEN out
    ELSE LET c == changes[i] IN
        IF c.t = "Left" THEN
            IF i < Len(changes) /\ changes[i + 1].t = "Right"
            THEN LET rd == changes[i + 1].r
                 IN  RightFromUnpadded(changes, i + 2, SomeLine(rd),
                                       Append(out, Changed(rd)))
            ELSE RightFromUnpadded(changes, i + 1, next,
                     Append(out, IF ~next.some
                                 THEN Empty(Range(0, RangeLen(c.l)))
                                 ELSE Empty(Range(next.lines.end,
                                                  next.lines.end + RangeLen(c.l)))))
        ELSE IF c.t = "Both" THEN RightFromUnpadded(changes, i + 1, SomeLine(c.r), out)
        ELSE RightFromUnpadded(changes, i + 1, next,
                 Append(out, IF ~next.some
                             THEN Changed(Range(0, RangeLen(c.r)))
                             ELSE Changed(Range(next.lines.end,
                                                next.lines.end + RangeLen(c.r)))))

\* DiffInfo::right_changes
RECURSIVE RightFrom(_, _, _, _)
RightFrom(changes, i, next, out) ==
    IF i > Len(changes) THEN out
    ELSE LET c == changes[i] IN
        IF c.t = "Left" THEN
            IF i < Len(changes) /\ changes[i + 1].t = "Right"
            THEN LET rd == changes[i + 1].r
                     out1 == Append(out, Changed(rd))
                 IN  RightFrom(changes, i + 2, SomeLine(rd),
                         IF RangeLen(rd) < RangeLen(c.l)
                         THEN Append(out1, Empty(Range(rd.end,
                                  rd.end + RangeLen(c.l) - RangeLen(rd))))
                         ELSE out1)
            ELSE RightFrom(changes, i + 1, next,
                     Append(out, IF ~next.some
                                 THEN Empty(Range(0, RangeLen(c.l)))
                                 ELSE Empty(Range(next.lines.end, next.lines.end + RangeLen(c.l)))))
        ELSE IF c.t = "Both" THEN RightFrom(changes, i + 1, SomeLine(c.r), out)
        ELSE RightFrom(changes, i + 1, next,
                 Append(out, IF ~next.some
                             THEN Changed(Range(0, RangeLen(c.r)))
                             ELSE Changed(Range(next.lines.end, next.lines.end + RangeLen(c.r)))))

right_changes(changes) == RightFrom(changes, 1, NoLine, <<>>)

\* The segments classified: non-empty line ranges within 0..MaxLine, the two
\* ranges of a Both of equal length.
Ranges ==
    {rg \in {Range(a, b) : a \in 0..MaxLine, b \in 0..MaxLine} : rg.start < rg.end}
Segments ==
    {Left(rg) : rg \in Ranges} \cup {Right(rg) : rg \in Ranges}
    \cup {sg \in {Both(x, y) : x \in Ranges, y \in Ranges} :
            RangeLen(sg.l) = RangeLen(sg.r)}

InitDiff ==
    /\ buf = BufferNew(<<>>)
    /\ union_str = <<>>
    /\ union_grp = <<>>
    /\ ops = <<Op("new", "Some", BufferNew(<<>>), "Other")>>
    /\ diff = NoDiff
    /\ app = NoApp

\* DiffInfo::changes gets one more segment, up to MaxSegs of them.
AddSegment ==
    /\ ~diff.done
    /\ Len(diff.changes) < MaxSegs
    /\ \E sg \in Segments : diff' = [diff EXCEPT !.changes = Append(diff.changes, sg)]
    /\ UNCHANGED <<buf, union_str, union_grp, ops, app>>

Classify ==
    /\ ~diff.done
    /\ diff.changes # <<>>
    /\ diff' = [diff EXCEPT !.left = left_changes(diff.changes),
                            !.right = right_changes(diff.changes),
                            !.done = TRUE]
    /\ UNCHANGED <<buf, union_str, union_grp, ops, app>>

NextDiff == AddSegment \/ Classify

SpecDiff == InitDiff /\ [][NextDiff]_vars

\* Segment lists as a line diff gives them: on each side the ranges follow
\* one another from line 0.
RECURSIVE SideEnd(_, _, _)
SideEnd(changes, i, side) ==
    IF i = 0 THEN 0
    ELSE LET c == changes[i] IN
         IF side = "left" /\ c.t \in {"Left", "Both"} THEN c.l.end
         ELSE IF side = "right" /\ c.t \in {"Right", "Both"} THEN c.r.end
         ELSE SideEnd(changes, i - 1, side)

ContiguousSegments(changes) ==
    LET le == SideEnd(changes, Len(changes), "left")
        re == SideEnd(changes, Len(changes), "right")
    IN  UNION {{Left(Range(le, le + k)), Right(Range(re, re + k)),
                Both(Range(le, le + k), Range(re, re + k))} : k \in 1..MaxSegLines}

AddContiguous ==
    /\ ~diff.done
    /\ Len(diff.changes) < MaxContigSegs
    /\ \E sg \in ContiguousSegments(diff.changes) :
        diff' = [diff EXCEPT !.changes = Append(diff.changes, sg)]
    /\ UNCHANGED <<buf, union_str, union_grp, ops, app>>

NextContig == AddContiguous \/ Classify

SpecContig == InitDiff /\ [][NextContig]_vars

\* ================================================================ claims
\* What the formulas below read off the record of operations.
EditOps == {"edit", "reload", "reload_pristine"}
IsEditOp(n) == ops[n].op \in EditOps

\* The undo group of the Edit revision that operation n appended.
GroupOf(n) == buf.revs[ops[n].nrevs].undo_group

\* The first operation whose edit went to the group of operation n.
FirstOfGroup(n) == SetMin({m \in 2..n : IsEditOp(m) /\ GroupOf(m) = GroupOf(n)})

UnionLen(n) == Len(ops[n].text) + Len(ops[n].tombstones)

\* The characters group g inserted, and what a text shows of them.
CharsOf(g) == {union_str[i] : i \in {j \in 1..Len(union_str) : union_grp[j] = g}}
IsCharOf(g, c) == c \in CharsOf(g)
Shown(text, g) == SelectSeq(text, LAMBDA c : IsCharOf(g, c))

SeqRange(q) == {q[i] : i \in 1..Len(q)}

\* C1 as claimed: a do_undo() right after any edit E returns Some and gives
\* back the text from before E, and a do_redo() right after that returns
\* Some and gives back the text from after E.
C1_UndoRestoresTextBeforeEdit ==
    \A n \in 2..Len(ops) :
        ops[n].op = "edit" =>
            /\ n = Len(ops) => do_undo(buf).ret = "Some"
            /\ (n < Len(ops) /\ ops[n + 1].op = "undo") =>
                /\ ops[n + 1].text = ops[n - 1].text
                /\ n + 1 = Len(ops) => do_redo(buf).ret = "Some"
                /\ (n + 2 <= Len(ops) /\ ops[n + 2].op = "redo") =>
                        ops[n + 2].text = ops[n].text

\* C1 amended: a do_undo() right after any edit E returns Some and gives
\* back the text from before the first edit of E's undo group (from before
\* E when E started a group); a do_redo() right after that returns Some and
\* gives back the text from after E.
C1_UndoRestoresTextBeforeGroup ==
    \A n \in 2..Len(ops) :
        ops[n].op = "edit" =>
            /\ n = Len(ops) => do_undo(buf).ret = "Some"
            /\ (n < Len(ops) /\ ops[n + 1].op = "undo") =>
                /\ ops[n + 1].text = ops[FirstOfGroup(n) - 1].text
                /\ FirstOfGroup(n) = n => ops[n + 1].text = ops[n - 1].text
                /\ n + 1 = Len(ops) => do_redo(buf).ret = "Some"
                /\ (n + 2 <= Len(ops) /\ ops[n + 2].op = "redo") =>
                        ops[n + 2].text = ops[n].text

\* An edit that changed the text, undone and redone.
C1_Witness ==
    \E n \in 2..Len(ops) :
        /\ n + 2 <= Len(ops)
        /\ ops[n].op = "edit" /\ ops[n + 1].op = "undo" /\ ops[n + 2].op = "redo"
        /\ ops[n].text # ops[n - 1].text

\* C2: text and tombstones are the two projections of the union string
\* that deletes_from_union selects: the lengths add up to the length of the
\* mask and of the union string, as many positions are marked deleted as
\* tombstones has characters, and text (tombstones) is the union string at
\* the positions not marked (marked), in order.
C2_UnionStringInvariant ==
    LET d == buf.deletes_from_union IN
    /\ Len(buf.text) + Len(buf.tombstones) = Len(d)
    /\ Len(d) = Len(union_str)
    /\ Cardinality({i \in 1..Len(d) : d[i] > 0}) = Len(buf.tombstones)
    /\ buf.text = DeleteFrom(d, union_str)
    /\ buf.tombstones = DeleteFrom(SubsetComplement(d), union_str)

\* Text and tombstones both hold characters after an undo and a redo.
C2_Witness ==
    /\ Len(ops) >= 3
    /\ ops[Len(ops)].op = "redo"
    /\ Len(buf.tombstones) >= 1
    /\ Len(buf.text) >= 1

\* C3 as claimed: no operation leaves tombstones shorter than it found it.
C3_TombstonesNeverShrink ==
    \A n \in 2..Len(ops) : Len(ops[n].tombstones) >= Len(ops[n - 1].tombstones)

\* C3 amended: no operation leaves the union string (text and tombstones
\* together) shorter than it found it, and no edit or reload leaves
\* tombstones shorter; do_undo and do_redo may move characters back from
\* tombstones to text.
C3_UnionNeverShrinks ==
    \A n \in 2..Len(ops) :
        /\ UnionLen(n) >= UnionLen(n - 1)
        /\ IsEditOp(n) => Len(ops[n].tombstones) >= Len(ops[n - 1].tombstones)

\* An edit deleted a character and an undo or redo came after it.
C3_Witness ==
    \E n \in 2..Len(ops) :
        /\ IsEditOp(n)
        /\ Len(ops[n].tombstones) > Len(ops[n - 1].tombstones)
        /\ \E m \in (n + 1)..Len(ops) : ops[m].op \in {"undo", "redo"}

\* C4: of two edits in a row (no undo, redo or reset_edit_type between
\* them) the second, when its type does not break grouping relative to the
\* first's, gets the first's undo group; one do_undo() after such a run
\* gives back the text from before the run's first edit and marks the group
\* undone, and a second do_undo() right after toggles another group and
\* leaves the run's characters out of the text.
C4_GroupCoalescing ==
    /\ \A n \in 2..(Len(ops) - 1) :
        (/\ ops[n].op = "edit" /\ ops[n + 1].op = "edit"
         /\ ~breaks_undo_group(ops[n + 1].edit_type, ops[n].edit_type))
        => GroupOf(n + 1) = GroupOf(n)
    /\ \A n \in 3..Len(ops) :
        (/\ ops[n].op = "undo" /\ ops[n - 1].op = "edit"
         /\ FirstOfGroup(n - 1) < n - 1)
        => LET g == GroupOf(n - 1) IN
           /\ ops[n].text = ops[FirstOfGroup(n - 1) - 1].text
           /\ Shown(ops[n].text, g) = <<>>
           /\ g \in ops[n].undone
           /\ (n < Len(ops) /\ ops[n + 1].op = "undo") =>
                /\ g \in ops[n + 1].undone
                /\ g \notin buf.revs[ops[n + 1].nrevs].toggled_groups
                /\ Shown(ops[n + 1].text, g) = <<>>

\* Three characters typed into one group, undone by the first of two
\* do_undo() calls.
C4_Witness ==
    \E n \in 2..Len(ops) :
        /\ n + 4 <= Len(ops)
        /\ \A k \in n..(n + 2) : ops[k].op = "edit" /\ ops[k].edit_type = "InsertChars"
        /\ GroupOf(n) = GroupOf(n + 2)
        /\ ops[n + 3].op = "undo" /\ ops[n + 4].op = "undo"
        /\ Len(ops[n + 2].text) = Len(ops[n + 3].text) + 3

\* C5: of two edits in a row the second, when its type breaks grouping
\* relative to the first's, gets a group no earlier edit has; after a run of
\* edits with such a breaking edit in it, the first do_undo() gives back the
\* text from just before the breaking edit and leaves the group before it
\* applied, a second do_undo() is possible, and it gives back the text from
\* before the run.
C5_GroupBreaking ==
    /\ \A n \in 2..(Len(ops) - 1) :
        (/\ ops[n].op = "edit" /\ ops[n + 1].op = "edit"
         /\ breaks_undo_group(ops[n + 1].edit_type, ops[n].edit_type))
        => \A m \in 2..n : IsEditOp(m) => GroupOf(m) # GroupOf(n + 1)
    /\ \A k \in 3..(Len(ops) - 1) :
        LET b == FirstOfGroup(k) IN
        (/\ ops[k].op = "edit" /\ ops[k + 1].op = "undo"
         /\ b > 2 /\ ops[b - 1].op = "edit"
         /\ breaks_undo_group(ops[b].edit_type, ops[b - 1].edit_type))
        => /\ ops[k + 1].text = ops[b - 1].text
           /\ GroupOf(b - 1) \notin ops[k + 1].undone
           /\ k + 1 = Len(ops) => do_undo(buf).ret = "Some"
           /\ (k + 2 <= Len(ops) /\ ops[k + 2].op = "undo") =>
                /\ ops[k + 2].text = ops[FirstOfGroup(b - 1) - 1].text
                /\ GroupOf(b - 1) \in ops[k + 2].undone

\* "a", "b" typed, "c" entered with a breaking type, then two do_undo().
C5_Witness ==
    \E n \in 2..Len(ops) :
        /\ n + 4 <= Len(ops)
        /\ \A k \in n..(n + 2) : ops[k].op = "edit"
        /\ GroupOf(n) = GroupOf(n + 1) /\ GroupOf(n + 1) # GroupOf(n + 2)
        /\ ops[n + 3].op = "undo" /\ ops[n + 4].op = "undo"
        /\ ops[n + 3].text = ops[n + 1].text
        /\ ops[n + 4].text = ops[n - 1].text
        /\ ops[n + 3].text # ops[n + 4].text

\* The group that the do_undo() of operation n undid.
UndoneBy(n) == CHOOSE g \in ops[n].undone : g \notin ops[n - 1].undone

\* C6: once a do_undo() that returned Some has been followed by a new edit,
\* do_redo() right after that edit returns None, and in every later state
\* the group that was undone is not in live_undos and is still undone.
C6_RedoInvalidation ==
    \A n \in 2..(Len(ops) - 1) :
        (ops[n].op = "undo" /\ IsEditOp(n + 1)) =>
            /\ n + 1 = Len(ops) => do_redo(buf).ret = "None"
            /\ UndoneBy(n) \notin SeqRange(buf.live_undos)
            /\ UndoneBy(n) \in buf.undone_groups
            /\ \A m \in (n + 1)..Len(ops) : UndoneBy(n) \in ops[m].undone

\* An undo, a new edit, and then both an undo and a redo.
C6_Witness ==
    \E n \in 2..Len(ops) :
        /\ n + 3 <= Len(ops)
        /\ ops[n].op = "undo" /\ ops[n + 1].op = "edit"
        /\ ops[n + 2].op = "undo" /\ ops[n + 3].op = "redo"

\* The operation after which set_pristine() was last called.
PristineOp == SetMin({m \in 1..Len(ops) : ops[m].nrevs = buf.pristine_rev_id + 1})

\* The operations after PristineOp are edits and then do_undo() calls, as
\* many as the edits made groups.
RevertedToPristine ==
    /\ \E m \in 1..Len(ops) : ops[m].nrevs = buf.pristine_rev_id + 1
    /\ PristineOp < Len(ops)
    /\ ops[PristineOp + 1].op = "edit"
    /\ \E q \in (PristineOp + 1)..Len(ops) :
        /\ \A k \in (PristineOp + 1)..q : ops[k].op = "edit"
        /\ \A k \in (q + 1)..Len(ops) : ops[k].op = "undo"
        /\ Len(ops) - q = Cardinality({GroupOf(k) : k \in (PristineOp + 1)..q})

\* C7 as claimed: after set_pristine(), edits and then as many do_undo()
\* calls as revert them leave is_pristine() true at a revision number other
\* than the recorded one.
C7_PristineAfterRevert ==
    RevertedToPristine => (is_pristine(buf) /\ rev(buf) # buf.pristine_rev_id)

\* C7 amended: the same, when the first edit after set_pristine() starts an
\* undo group (it is not coalesced into the group of the edit before
\* set_pristine()).
C7_PristineAfterRevertOfNewGroups ==
    (RevertedToPristine /\ FirstOfGroup(PristineOp + 1) = PristineOp + 1)
        => (is_pristine(buf) /\ rev(buf) # buf.pristine_rev_id)

\* set_pristine() called after an edit, then two more groups of edits, both
\* undone.
C7_Witness ==
    /\ RevertedToPristine
    /\ FirstOfGroup(PristineOp + 1) = PristineOp + 1
    /\ PristineOp > 1
    /\ Len(ops) >= PristineOp + 4
    /\ ops[Len(ops)].op = "undo" /\ ops[Len(ops) - 1].op = "undo"
    /\ is_pristine(buf)

\* C10: the revision numbers grow strictly along the log, the next number
\* to assign is above them all, and the revision at index 0 is the sentinel
\* Undo revision numbered 0.
C10_RevisionNumbering ==
    /\ buf.revs[1].kind = "Undo"
    /\ buf.revs[1].num = 0
    /\ buf.revs[1].toggled_groups = {}
    /\ \A i \in 1..Len(buf.revs), j \in 1..Len(buf.revs) :
        i < j => buf.revs[i].num < buf.revs[j].num
    /\ buf.rev_counter > Last(buf.revs).num

\* An edit, an undo and a redo have each been given a number.
C10_Witness ==
    /\ Len(buf.revs) = 4
    /\ buf.revs[2].kind = "Edit"
    /\ buf.revs[3].kind = "Undo"
    /\ buf.revs[4].kind = "Undo"
    /\ ops[Len(ops)].op = "redo"

\* The groups that got an edit before operation n.
GroupsBefore(n) == {GroupOf(m) : m \in {k \in 2..(n - 1) : IsEditOp(k)}}

\* C8: with no group undone and two groups G1 < G2 made, the undo
\* primitive called with {G1} leaves what the text shows of G2 as it was,
\* and the undo primitive called with {} right after gives back the text
\* from before G1 was undone.
C8_SelectiveUndo ==
    \A n \in 3..Len(ops) :
        (/\ ops[n].op = "toggle"
         /\ ops[n - 1].undone = {}
         /\ Cardinality(ops[n].undone) = 1
         /\ ops[n].undone \subseteq GroupsBefore(n))
        => \A g1 \in ops[n].undone :
           \A g2 \in {g \in GroupsBefore(n) : g > g1} :
               /\ Shown(ops[n].text, g2) = Shown(ops[n - 1].text, g2)
               /\ (/\ n < Len(ops)
                   /\ ops[n + 1].op = "toggle"
                   /\ ops[n + 1].undone = {})
                  => ops[n + 1].text = ops[n - 1].text

\* G1 and G2 both show characters, G1 is undone alone and redone.
C8_Witness ==
    \E n \in 3..(Len(ops) - 1) :
        /\ ops[n].op = "toggle" /\ ops[n + 1].op = "toggle"
        /\ ops[n - 1].undone = {} /\ ops[n + 1].undone = {}
        /\ \E g1 \in GroupsBefore(n), g2 \in GroupsBefore(n) :
            /\ g1 < g2
            /\ ops[n].undone = {g1}
            /\ Shown(ops[n - 1].text, g1) # <<>>
            /\ Shown(ops[n].text, g1) = <<>>
            /\ Shown(ops[n].text, g2) # <<>>

\* C9: a Left(l) with a Right(r) right after it gives, at its place in the
\* result of left_changes(), Changed(l) and then Empty(l.end .. l.end +
\* |r| - |l|) exactly when |l| < |r|, and at its place in the result of
\* right_changes(), Changed(r) and then Empty(r.end .. r.end + |l| - |r|)
\* exactly when |r| < |l|; [Left(0..2), Right(0..3)] gives [Changed(0..2),
\* Empty(2..3)] on the left and [Changed(0..3)] on the right.
C9_InPlaceEdit ==
    diff.done =>
    /\ \A i \in 1..(Len(diff.changes) - 1) :
        (diff.changes[i].t = "Left" /\ diff.changes[i + 1].t = "Right") =>
            LET l == diff.changes[i].l
                r == diff.changes[i + 1].r
                pre == SubSeq(diff.changes, 1, i - 1)
                post == SubSeq(diff.changes, i + 2, Len(diff.changes))
                kl == Len(left_changes(pre))
                kr == Len(right_changes(pre))
            IN  /\ diff.left[kl + 1] = Changed(l)
                /\ RangeLen(l) < RangeLen(r) =>
                    diff.left[kl + 2]
                        = Empty(Range(l.end, l.end + (RangeLen(r) - RangeLen(l))))
                /\ Len(diff.left) = kl + Len(left_changes(post))
                                    + (IF RangeLen(l) < RangeLen(r) THEN 2 ELSE 1)
                /\ diff.right[kr + 1] = Changed(r)
                /\ RangeLen(r) < RangeLen(l) =>
                    diff.right[kr + 2]
                        = Empty(Range(r.end, r.end + (RangeLen(l) - RangeLen(r))))
                /\ Len(diff.right) = kr + Len(right_changes(post))
                                     + (IF RangeLen(r) < RangeLen(l) THEN 2 ELSE 1)
    /\ diff.changes = <<Left(Range(0, 2)), Right(Range(0, 3))>> =>
        /\ diff.left = <<Changed(Range(0, 2)), Empty(Range(2, 3))>>
        /\ diff.right = <<Changed(Range(0, 3))>>

\* [Left(0..2), Right(0..3)] has been classified.
C9_Witness ==
    /\ diff.done
    /\ diff.changes = <<Left(Range(0, 2)), Right(Range(0, 3))>>
    /\ Len(diff.left) = 2

\* C11: a do_undo() called with cur_undo <= 1 and a do_redo() called with
\* cur_undo >= live_undos.len() return None and leave the buffer, every
\* field of it, as it was; called anywhere else they return Some.
C11_HistoryBoundaryNoOps ==
    \A n \in 2..Len(ops) :
        LET before == ops[n - 1].self
            after == ops[n].self
        IN  /\ ops[n].op = "undo" =>
                /\ (ops[n].ret = "None") <=> (before.cur_undo <= 1)
                /\ ops[n].ret = "None" => after = before
            /\ ops[n].op = "redo" =>
                /\ (ops[n].ret = "None") <=> (before.cur_undo >= Len(before.live_undos))
                /\ ops[n].ret = "None" => after = before

\* A buffer with an undone edit met a do_undo() at the bottom of its history
\* and, after the redo, a do_redo() at the top.
C11_Witness ==
    \E n \in 2..Len(ops), m \in 2..Len(ops) :
        /\ n < m
        /\ ops[n].op = "undo" /\ ops[n].ret = "None"
        /\ Len(ops[n].self.revs) > 2
        /\ ops[n].self.undone_groups # {}
        /\ ops[m].op = "redo" /\ ops[m].ret = "None"
        /\ Len(ops[m].self.live_undos) > 1

\* C12: between operations (new, init_content, edit, reload,
\* normalize_line_endings, do_undo, do_redo all among them) the number in
\* atomic_rev is rev(), and the numbers stored into atomic_rev, in the
\* order of the stores, never go down.
C12_AtomicRevMirrorsRev ==
    /\ ~app.pending.busy => buf.atomic_rev = rev(buf)
    /\ \A n \in 1..Len(ops) : ops[n].atomic_rev = ops[n].rev
    /\ \A i \in 1..(Len(app.stores) - 1) : app.stores[i] <= app.stores[i + 1]

\* An edit, a normalize_line_endings, a do_undo and a do_redo are complete.
C12_Witness ==
    /\ ~app.pending.busy
    /\ \E a \in 2..Len(ops), b \in 2..Len(ops), c \in 2..Len(ops), d \in 2..Len(ops) :
        /\ ops[a].op = "edit"
        /\ ops[b].op = "normalize_line_endings"
        /\ ops[c].op = "undo"
        /\ ops[d].op = "redo"
    /\ buf.atomic_rev = 4

\* The two halves of every operation: between them the new number is in
\* atomic_rev and revs, text, tombstones and deletes_from_union are the ones
\* the operation found; atomic_rev is never below the number of the head
\* revision.
PublishBeforeInstall ==
    /\ app.pending.busy =>
        /\ buf.atomic_rev = app.pending.p.new.rev.num
        /\ buf.atomic_rev > rev(buf)
        /\ Len(buf.revs) = Last(ops).nrevs
        /\ buf.text = Last(ops).text
        /\ buf.tombstones = Last(ops).tombstones
        /\ Len(buf.deletes_from_union) = UnionLen(Len(ops))
    /\ buf.atomic_rev >= rev(buf)

\* C13 as claimed: the number is stored before anything is installed, and a
\* reader that loads atomic_rev and then reads the text has loaded a number
\* that is not below the number of the revision of that text.
C13_LoadThenReadNotLower ==
    /\ PublishBeforeInstall
    /\ (app.reader.pc = "done" /\ app.reader.order = "load_then_read")
        => app.reader.atomic >= app.reader.num

\* C13 amended: the number is stored before anything is installed, and a
\* reader that reads the text and then loads atomic_rev loads a number that
\* is not below the number of the revision of that text.
C13_ReadThenLoadNotLower ==
    /\ PublishBeforeInstall
    /\ (app.reader.pc = "done" /\ app.reader.order = "read_then_load")
        => app.reader.atomic >= app.reader.num

\* The reader read the text of an edit and loaded the number between the
\* two halves of the next operation.
C13_Witness ==
    /\ app.reader.pc = "done"
    /\ app.reader.order = "read_then_load"
    /\ app.reader.num >= 1
    /\ app.pending.busy
    /\ app.reader.atomic = buf.atomic_rev
    /\ app.reader.atomic > app.reader.num

\* C14: a result is installed only when, at its delivery, the atomic_rev of
\* the left buffer is the left_rev of its snapshot and the atomic_rev of the
\* right buffer is the right_rev; a result whose snapshot was followed by an
\* edit, undo or redo of either buffer leaves both views as they were; a
\* result that finds both numbers unchanged is installed into both views.
C14_StaleResultsDiscarded ==
    \A k \in 1..Len(app.log) :
        LET d == app.log[k]
            fresh == /\ d.left_atomic_rev = d.job.left_rev
                     /\ d.right_atomic_rev = d.job.right_rev
            touched == \/ d.nops.left # d.job.left_ops
                       \/ d.nops.right # d.job.right_ops
        IN  /\ d.views_after # d.views_before => fresh
            /\ touched => d.views_after = d.views_before
            /\ (fresh /\ d.job.changes.some) =>
                /\ d.views_after.left = DiffView(FALSE, d.job.changes.changes)
                /\ d.views_after.right = DiffView(TRUE, d.job.changes.changes)

\* One result was installed, and a later one, computed but overtaken by an
\* undo of the left buffer, was dropped.
C14_Witness ==
    \E k \in 1..Len(app.log), j \in 1..Len(app.log) :
        /\ k < j
        /\ app.log[k].views_after # app.log[k].views_before
        /\ app.log[j].job.changes.some
        /\ app.log[j].nops.left # app.log[j].job.left_ops
        /\ app.log[j].left_atomic_rev # app.log[j].job.left_rev
        /\ app.log[j].job.left_rope = buf.text
        /\ app.views.left.kind = "Diff"

\* A text with each region of a set replaced by its rope, the rightmost
\* region first.
RECURSIVE Replaced(_, _)
Replaced(text, regions) ==
    IF regions = {} THEN text
    ELSE LET rg == CHOOSE x \in regions : \A y \in regions :
                        \/ y.start < x.start
                        \/ y.start = x.start /\ y.end <= x.end
         IN  Replaced(SubSeq(text, 1, rg.start) \o rg.rope
                          \o SubSeq(text, rg.end + 1, Len(text)),
                      regions \ {rg})

\* C15: every call of Buffer::edit, whatever the number of its regions,
\* appends one revision, an Edit, whose number is the next one; the text
\* after it has every region replaced; every character it inserted belongs
\* to that revision's one undo group; and a do_undo() right after gives back
\* the text from before the group's first edit, the text from before the
\* call when the call started the group.
C15_MultiRegionEditIsAtomic ==
    \A n \in 2..Len(ops) :
        ops[n].op = "edit" =>
            /\ ops[n].nrevs = ops[n - 1].nrevs + 1
            /\ ops[n].rev = ops[n - 1].rev + 1
            /\ buf.revs[ops[n].nrevs].kind = "Edit"
            /\ ops[n].text = Replaced(ops[n - 1].text, SeqRange(ops[n].regions))
            /\ \A k \in 1..Len(ops[n].regions) :
                \A c \in SeqRange(ops[n].regions[k].rope) : IsCharOf(GroupOf(n), c)
            /\ (n < Len(ops) /\ ops[n + 1].op = "undo") =>
                /\ ops[n + 1].text = ops[FirstOfGroup(n) - 1].text
                /\ FirstOfGroup(n) = n => ops[n + 1].text = ops[n - 1].text

\* Three regions, given out of order, that insert two characters and delete
\* one, undone by one do_undo().
C15_Witness ==
    \E n \in 2..(Len(ops) - 1) :
        /\ ops[n].op = "edit" /\ ops[n + 1].op = "undo"
        /\ Len(ops[n].regions) = 3
        /\ ops[n].regions[1].start > ops[n].regions[3].start
        /\ Cardinality(SeqRange(ops[n].text) \ SeqRange(ops[n - 1].text)) = 2
        /\ Cardinality(SeqRange(ops[n - 1].text) \ SeqRange(ops[n].text)) = 1
        /\ ops[n + 1].text = ops[n - 1].text

\* The content each reload of Spec was given: empty, or the one fresh character
\* chosen from the counter of the operation before (no line terminator occurs
\* in the alphabet, so normalize_limited leaves the content as it is).
ReloadContents(n) == {<<>>, <<Fresh(ops[n - 1].rev_counter)>>}

LiveUndo(self, i) == self.live_undos[i + 1]

\* C17: in every state live_undos[0] is 0 and 1 <= cur_undo <= live_undos.len();
\* a successful do_undo() lowers cur_undo by 1 and adds live_undos[new cur_undo]
\* to the undone set, a successful do_redo() removes live_undos[old cur_undo]
\* from it and raises cur_undo by 1; every group in live_undos[cur_undo..] is
\* undone, none in live_undos[1..cur_undo] is, and group 0 never is.
C17_UndoStackInvariant ==
    /\ \A n \in 1..Len(ops) :
        LET self == ops[n].self
            len == Len(self.live_undos)
        IN  /\ LiveUndo(self, 0) = 0
            /\ 1 <= self.cur_undo /\ self.cur_undo <= len
            /\ \A i \in self.cur_undo..(len - 1) : LiveUndo(self, i) \in self.undos
            /\ \A i \in 1..(self.cur_undo - 1) : LiveUndo(self, i) \notin self.undos
            /\ 0 \notin self.undos
            /\ self.undone_groups = self.undos
    /\ \A n \in 2..Len(ops) :
        LET before == ops[n - 1].self
            after == ops[n].self
        IN  /\ (ops[n].op = "undo" /\ ops[n].ret = "Some") =>
                /\ after.cur_undo = before.cur_undo - 1
                /\ after.live_undos = before.live_undos
                /\ after.undos = before.undos \cup {LiveUndo(before, after.cur_undo)}
            /\ (ops[n].op = "redo" /\ ops[n].ret = "Some") =>
                /\ after.cur_undo = before.cur_undo + 1
                /\ after.live_undos = before.live_undos
                /\ after.undos = before.undos \ {LiveUndo(before, before.cur_undo)}

\* Two groups were undone and the lower one redone: one group is live below
\* cur_undo and one undone group is left above it.
C17_Witness ==
    \E n \in 3..Len(ops) :
        LET self == ops[n].self
        IN  /\ ops[n].op = "redo" /\ ops[n].ret = "Some"
            /\ ops[n - 1].op = "undo" /\ ops[n - 1].ret = "Some"
            /\ self.cur_undo = 2
            /\ Len(self.live_undos) = 3
            /\ self.undos = {LiveUndo(self, 2)}

\* Operation n is an edit whose type breaks the undo group of the edit type
\* recorded before it, so calculate_undo_group starts a new group.
StartsGroup(n) ==
    /\ ops[n].op = "edit"
    /\ breaks_undo_group(ops[n].edit_type, ops[n - 1].self.last_edit_type)

\* C18: starting a new undo group truncates live_undos to its first cur_undo
\* entries, appends the old undo_group_id, and raises cur_undo and undo_group_id
\* by 1; afterwards cur_undo is live_undos.len(), the last entry of live_undos
\* is the new group (the one the new revision carries), and undo_group_id is
\* greater than every id in live_undos.
C18_NewUndoGroup ==
    \A n \in 2..Len(ops) :
        LET before == ops[n - 1].self
            after == ops[n].self
        IN  StartsGroup(n) =>
                /\ after.live_undos =
                        Append(SubSeq(before.live_undos, 1, before.cur_undo),
                               before.undo_group_id)
                /\ after.cur_undo = before.cur_undo + 1
                /\ after.undo_group_id = before.undo_group_id + 1
                /\ after.cur_undo = Len(after.live_undos)
                /\ Last(after.live_undos) = Last(after.revs).undo_group
                /\ Last(after.live_undos) \notin
                        {before.live_undos[i] : i \in 1..Len(before.live_undos)}
                /\ \A i \in 1..Len(after.live_undos) :
                        after.undo_group_id > after.live_undos[i]

\* An edit started a new group while a redo-able group was above cur_undo,
\* and that group was discarded from live_undos.
C18_Witness ==
    \E n \in 3..Len(ops) :
        LET before == ops[n - 1].self
            after == ops[n].self
        IN  /\ StartsGroup(n)
            /\ before.cur_undo = 2
            /\ Len(before.live_undos) = 3
            /\ Len(after.live_undos) = 3
            /\ after.live_undos[3] # before.live_undos[3]

\* The text the regions insert and the text they delete from text, both in
\* the order of the positions.
RECURSIVE RegionTexts(_, _)
RegionTexts(text, regions) ==
    IF regions = {} THEN [ins |-> <<>>, del |-> <<>>]
    ELSE LET rg == CHOOSE x \in regions : \A y \in regions :
                        \/ x.start < y.start
                        \/ x.start = y.start /\ x.end <= y.end
             rest == RegionTexts(text, regions \ {rg})
         IN  [ins |-> rg.rope \o rest.ins,
              del |-> SubSeq(text, rg.start + 1, rg.end) \o rest.del]

\* What the Revision of the last operation, an edit, holds besides its num:
\* max_undo_so_far, the undo group, and the inserts and deletes as subsets of
\* the union string.
RevisionOfLastEdit(num) ==
    LET n == Len(ops)
        r == Last(buf.revs)
        head_rev == buf.revs[Len(buf.revs) - 1]
        undo_group == Last(buf.live_undos)
        t == RegionTexts(ops[n - 1].text, SeqRange(ops[n].regions))
    IN  /\ ops[n].nrevs = Len(buf.revs)
        /\ r.kind = "Edit"
        /\ r.num = num
        /\ r.undo_group = undo_group
        /\ r.max_undo_so_far = Max(undo_group, head_rev.max_undo_so_far)
        /\ Len(r.inserts) = Len(union_str)
        /\ Len(r.deletes) = Len(union_str)
        /\ DeleteFrom(SubsetComplement(r.inserts), union_str) = t.ins
        /\ DeleteFrom(SubsetComplement(r.deletes), union_str) = t.del

\* C19 as stated: the Revision assembled by mk_new_rev has num equal to
\* rev_counter + 1, with rev_counter as it is when mk_new_rev runs.
C19_NumIsCounterPlusOne ==
    (Len(ops) >= 2 /\ ops[Len(ops)].op = "edit") =>
        RevisionOfLastEdit(ops[Len(ops) - 1].rev_counter + 1)

\* C19: the Revision assembled by mk_new_rev has num equal to rev_counter as
\* it is when mk_new_rev runs, max_undo_so_far equal to the larger of
\* undo_group and the previous head revision's max_undo_so_far, and an Edit
\* with that undo_group whose inserts select the inserted text and whose
\* deletes select the deleted text in the union string.
C19_NumIsCounter ==
    (Len(ops) >= 2 /\ ops[Len(ops)].op = "edit") =>
        RevisionOfLastEdit(ops[Len(ops) - 1].rev_counter)

\* The revision of an edit of several regions that inserted and deleted
\* text was assembled after an earlier edit, under a counter of at least 2.
C19_Witness ==
    LET n == Len(ops)
        r == Last(buf.revs)
    IN  /\ n >= 3
        /\ ops[n].op = "edit" /\ Len(ops[n].regions) >= 2
        /\ ops[n - 1].rev_counter >= 2
        /\ r.num = ops[n - 1].rev_counter
        /\ r.max_undo_so_far = r.undo_group
        /\ ~SubsetIsEmpty(r.inserts)
        /\ ~SubsetIsEmpty(r.deletes)

\* The pieces of text that the edits up to operation n deleted, one after
\* another in the order of the deletions.
RECURSIVE DeletedInOrder(_)
DeletedInOrder(n) ==
    IF n <= 1 THEN <<>>
    ELSE DeletedInOrder(n - 1)
            \o RegionTexts(ops[n - 1].text, SeqRange(ops[n].regions)).del

\* The same pieces in the order in which they stand in the union string
\* (no character occurs twice in it).
DeletedInUnionOrder(n) ==
    LET deleted == SeqRange(DeletedInOrder(n))
    IN  SelectSeq(union_str, LAMBDA c : c \in deleted)

OnlyEdits == \A n \in 2..Len(ops) : ops[n].op = "edit"

\* C20 as stated: after edits that delete pieces of text one after another,
\* tombstones is those pieces concatenated in the order of the deletions.
C20_TombstonesInDeletionOrder ==
    OnlyEdits => buf.tombstones = DeletedInOrder(Len(ops))

\* C20: after edits that delete pieces of text one after another, tombstones
\* is all the deleted text in the order in which it stands in the union
\* string.
C20_TombstonesInUnionOrder ==
    OnlyEdits => buf.tombstones = DeletedInUnionOrder(Len(ops))

\* Two edits deleted one piece each, the later piece standing before the
\* earlier one in the union string.
C20_Witness ==
    /\ OnlyEdits
    /\ Len(ops) >= 3
    /\ Len(buf.tombstones) >= 2
    /\ buf.tombstones = DeletedInUnionOrder(Len(ops))
    /\ buf.tombstones # DeletedInOrder(Len(ops))

\* The groups an undo may name, and the mask of the initial state: nothing
\* of the text given to Buffer::new is deleted.
AllGroups == SUBSET (1..(buf.undo_group_id - 1))
InitialMask == SubsetNew(Len(ops[1].text))

\* The replay of the whole revision log, forward from the initial state.
FullReplay(groups) == ReplayRevs(buf, 1, groups, InitialMask)

\* C21: in every state reached by edits and calls of undo with arbitrary
\* sets, and for every set groups that undo is then called with,
\* compute_undo(groups) returns (and undo installs) the mask that
\* the replay of the whole log from the initial state gives (inserts of the
\* Edits of groups marked deleted, every other Edit's inserts live and its
\* deletes applied); starting at find_first_undo_candidate_index from the
\* backward-reconstructed mask gives the same.
C21_ToggleEqualsFullReplay ==
    [][(Len(ops') > Len(ops) /\ Last(ops').op = "toggle") =>
        /\ buf'.undone_groups \in AllGroups
        /\ compute_undo(buf, buf'.undone_groups).deletes_from_union
                = FullReplay(buf'.undone_groups)
        /\ buf'.deletes_from_union = FullReplay(buf'.undone_groups)]_vars

\* After an undo left a group undone, some set makes compute_undo start in
\* the middle of a log of four or more revisions and return a mask other
\* than the current one.
C21_Witness ==
    /\ Len(buf.revs) >= 4
    /\ buf.undone_groups # {}
    /\ \E k \in 2..Len(buf.revs) : buf.revs[k].kind = "Undo"
    /\ \E groups \in AllGroups :
        LET first == find_first_undo_candidate_index(buf, SymDiff(buf.undone_groups, groups))
        IN  /\ first >= 2 /\ first < Len(buf.revs)
            /\ compute_undo(buf, groups).deletes_from_union # buf.deletes_from_union
            /\ compute_undo(buf, groups).deletes_from_union = FullReplay(groups)

\* C22: every Undo revision that Buffer::undo appends records as
\* toggled_groups the symmetric difference of the undone groups before and
\* after the call, and a deletes_bitxor whose XOR with deletes_from_union
\* before the call is deletes_from_union after it, and whose XOR with the
\* mask after gives back the mask before.
C22_UndoRevisionRecordsToggle ==
    [][(Len(ops') > Len(ops) /\ Last(ops').op = "toggle") =>
        LET r == Last(buf'.revs)
        IN  /\ Len(buf'.revs) = Len(buf.revs) + 1
            /\ r.kind = "Undo"
            /\ r.toggled_groups = SymDiff(buf.undone_groups, buf'.undone_groups)
            /\ Len(r.deletes_bitxor) = Len(buf.deletes_from_union)
            /\ SubsetBitxor(buf.deletes_from_union, r.deletes_bitxor)
                    = buf'.deletes_from_union
            /\ SubsetBitxor(buf'.deletes_from_union, r.deletes_bitxor)
                    = buf.deletes_from_union]_vars

\* An undo called while a group was undone toggled two groups, one back in
\* and one out, and changed the mask.
C22_Witness ==
    \E n \in 3..Len(ops) :
        LET r == buf.revs[ops[n].nrevs]
        IN  /\ ops[n].op = "toggle"
            /\ ops[n - 1].undone # {}
            /\ r.kind = "Undo"
            /\ Cardinality(r.toggled_groups) = 2
            /\ r.toggled_groups # ops[n].undone
            /\ ops[n - 1].undone \ ops[n].undone # {}
            /\ ops[n].undone \ ops[n - 1].undone # {}
            /\ ~SubsetIsEmpty(r.deletes_bitxor)

\* Operation n appended a revision (Buffer::new built the first one).
Appended(n) == n = 1 \/ Len(ops[n].self.revs) > Len(ops[n - 1].self.revs)

\* C23: in every state reached through edit, reload, do_undo and do_redo,
\* and for every index i of the log, deletes_from_union_for_index(i) is the
\* deletes_from_union that was installed when revision i was appended.
C23_HistoricalReconstruction ==
    \A n \in 1..Len(ops) :
        Appended(n) =>
            deletes_from_union_for_index(buf, Len(ops[n].self.revs) - 1)
                = ops[n].self.deletes_from_union

\* The mask of an undo in the middle of the log is reconstructed across a
\* later redo, a reload and an edit that made the union string longer.
C23_Witness ==
    \E n \in 2..Len(ops) :
        /\ ops[n].op = "undo" /\ ops[n].ret = "Some"
        /\ ~SubsetIsEmpty(ops[n].self.deletes_from_union)
        /\ Len(buf.deletes_from_union) > Len(ops[n].self.deletes_from_union)
        /\ \E m \in (n + 1)..Len(ops) : ops[m].op = "redo" /\ ops[m].ret = "Some"
        /\ \E m \in (n + 1)..Len(ops) : ops[m].op = "reload"
        /\ deletes_from_union_for_index(buf, Len(ops[n].self.revs) - 1)
                = ops[n].self.deletes_from_union

\* The first revision of group g in the log of self, and the last Edit of
\* g met from there while the Edits carry g (Undo revisions are passed over).
FirstRevOf(self, g) ==
    SetMin({k \in 1..Len(self.revs) :
                self.revs[k].kind = "Edit" /\ self.revs[k].undo_group = g})
LastRunRevOf(self, g) ==
    LET first == FirstRevOf(self, g)
        run == {k \in first..Len(self.revs) :
                    /\ self.revs[k].kind = "Edit"
                    /\ \A j \in first..k :
                        self.revs[j].kind = "Edit" => self.revs[j].undo_group = g}
    IN  CHOOSE k \in run : \A j \in run : j <= k

\* C24: a successful do_undo() of group g returns the cursor_before stored on
\* the first revision of g, and a successful do_redo() of g returns the
\* cursor_after stored on the last Edit of g met walking forward from g's
\* first revision while the Edits carry g; None when that revision has no
\* snapshot.
C24_CursorRestoration ==
    \A n \in 2..Len(ops) :
        LET before == ops[n - 1].self
            after == ops[n].self
        IN  /\ ops[n].op = "undo" =>
                LET g == before.live_undos[after.cur_undo + 1]
                IN  /\ ops[n].cursor = before.revs[FirstRevOf(before, g)].cursor_before
                    /\ Last(after.revs).cursor_before = ops[n].cursor
            /\ ops[n].op = "redo" =>
                LET g == before.live_undos[before.cur_undo + 1]
                IN  /\ ops[n].cursor = before.revs[LastRunRevOf(before, g)].cursor_after
                    /\ Last(after.revs).cursor_after = ops[n].cursor

\* A group of two edits, with cursor_before set on the first and
\* cursor_after on the second only, was undone and redone: the undo returned
\* the first edit's snapshot and the redo the second's.
C24_Witness ==
    \E n \in 2..(Len(ops) - 1) :
        LET before == ops[n - 1].self
            g == Last(before.live_undos)
            first == FirstRevOf(before, g)
            last == LastRunRevOf(before, g)
        IN  /\ ops[n].op = "undo" /\ ops[n + 1].op = "redo"
            /\ g # 0
            /\ first < last
            /\ before.revs[first].cursor_before # NoCursor
            /\ before.revs[first].cursor_after = NoCursor
            /\ before.revs[last].cursor_after # NoCursor
            /\ ops[n].cursor = before.revs[first].cursor_before
            /\ ops[n + 1].cursor = before.revs[last].cursor_after

\* C25: when an edit is given an undo group that is undone, every character
\* it inserts is marked deleted in the new deletes_from_union and is in the
\* tombstones, the deletions of its delta are not applied to the mask, and
\* the visible text is the one from before the edit.
C25_EditInsideUndoneGroup ==
    [][(/\ Len(ops') > Len(ops)
        /\ Last(ops').op = "edit"
        /\ Last(buf'.revs).undo_group \in buf.undone_groups) =>
        LET r == Last(buf'.revs)
            inserted == DeleteFrom(SubsetComplement(r.inserts), union_str')
        IN  /\ buf'.text = buf.text
            /\ buf'.deletes_from_union
                    = SubsetUnion(TransformExpand(buf.deletes_from_union, r.inserts),
                                  r.inserts)
            /\ \A c \in SeqRange(inserted) : c \in SeqRange(buf'.tombstones)
            /\ Len(buf'.tombstones) = Len(buf.tombstones) + Len(inserted)
            /\ buf'.tombstones
                    = DeleteFrom(SubsetComplement(buf'.deletes_from_union), union_str')
       ]_vars

\* An edit that replaced a visible character joined a group that is undone:
\* its revision has inserts and deletes, and the text did not change.
C25_Witness ==
    \E n \in 3..Len(ops) :
        LET r == buf.revs[ops[n].nrevs]
        IN  /\ ops[n].op = "edit"
            /\ r.undo_group \in ops[n - 1].undone
            /\ ~SubsetIsEmpty(r.inserts)
            /\ ~SubsetIsEmpty(r.deletes)
            /\ ops[n - 1].text # <<>>
            /\ ops[n].text = ops[n - 1].text
            /\ Len(ops[n].tombstones) > Len(ops[n - 1].tombstones)

\* The last call before operation n that was not a do_undo() or do_redo()
\* returning None.
LastEffective(n) ==
    CHOOSE m \in 1..(n - 1) :
        /\ ops[m].ret = "Some"
        /\ \A j \in (m + 1)..(n - 1) : ops[j].ret = "None"

\* C26: after a successful do_undo() or do_redo() the next edit, of any edit
\* type, gets a fresh undo group id: the value of undo_group_id, which is
\* not the id at the end of live_undos nor any id in it.
C26_UndoRedoBreakGrouping ==
    \A n \in 3..Len(ops) :
        (/\ ops[n].op = "edit"
         /\ ops[LastEffective(n)].op \in {"undo", "redo"}) =>
            LET before == ops[n - 1].self
                after == ops[n].self
                g == Last(after.revs).undo_group
            IN  /\ before.last_edit_type \in {"Undo", "Redo"}
                /\ g = before.undo_group_id
                /\ g # Last(before.live_undos)
                /\ \A i \in 1..Len(before.live_undos) : g # before.live_undos[i]
                /\ Last(after.live_undos) = g

\* InsertChars was typed, undone, and typed again: the edit type was the one
\* of the last edit, and yet a new group was started.
C26_Witness ==
    \E n \in 4..Len(ops) :
        /\ ops[n].op = "edit" /\ ops[n].edit_type = "InsertChars"
        /\ ops[n - 1].op = "undo" /\ ops[n - 1].ret = "Some"
        /\ ops[n - 2].op = "edit" /\ ops[n - 2].edit_type = "InsertChars"
        /\ Last(ops[n].self.revs).undo_group = ops[n - 1].self.undo_group_id
        /\ Last(ops[n].self.revs).undo_group # Last(ops[n - 2].self.revs).undo_group

\* What C27 (and C9, for a Left with a Right right after it) asks of one side
\* for the segments from i on: le and re are the ends of the last left and
\* right ranges before segment i, 0 if there is none.
RECURSIVE AskedFrom(_, _, _)
AskedFrom(changes, i, side) ==
    IF i > Len(changes) THEN <<>>
    ELSE LET c == changes[i]
             le == SideEnd(changes, i - 1, "left")
             re == SideEnd(changes, i - 1, "right")
         IN  IF c.t = "Both" THEN AskedFrom(changes, i + 1, side)
             ELSE IF c.t = "Left" /\ i < Len(changes) /\ changes[i + 1].t = "Right"
             THEN LET r == changes[i + 1].r
                      ll == RangeLen(c.l)
                      rl == RangeLen(r)
                  IN  (IF side = "left"
                       THEN <<Changed(c.l)>> \o
                            (IF ll < rl THEN <<Empty(Range(c.l.end, c.l.end + rl - ll))>>
                             ELSE <<>>)
                       ELSE <<Changed(r)>> \o
                            (IF rl < ll THEN <<Empty(Range(r.end, r.end + ll - rl))>>
                             ELSE <<>>))
                      \o AskedFrom(changes, i + 2, side)
             ELSE IF c.t = "Left"
             THEN <<IF side = "left" THEN Changed(c.l)
                    ELSE Empty(Range(re, re + RangeLen(c.l)))>>
                  \o AskedFrom(changes, i + 1, side)
             ELSE <<IF side = "left" THEN Empty(Range(le, le + RangeLen(c.r)))
                    ELSE Changed(c.r)>>
                  \o AskedFrom(changes, i + 1, side)

\* C27 as stated: for segment lists contiguous per side from line 0, a Left
\* not followed by a Right gives Changed(l) on the left and, on the right,
\* Empty of length |l| from the end of the last right range (0 if none); a
\* Right not consumed by a Left gives, on the left, Empty of length |r| from
\* the end of the last left range (0 if none) and Changed over exactly r on
\* the right; a Both gives nothing.
C27_PureInsertionDeletion ==
    diff.done =>
        /\ diff.left = AskedFrom(diff.changes, 1, "left")
        /\ diff.right = AskedFrom(diff.changes, 1, "right")

\* The first offset of the base a delta does not copy in place, and the
\* lines of a text.
RECURSIVE FirstTouched(_, _)
FirstTouched(els, pos) ==
    IF els # <<>> /\ Head(els).t = "Copy" /\ Head(els).b = pos
    THEN FirstTouched(Tail(els), Head(els).e)
    ELSE pos

LinesOf(text) == 1 + Cardinality({k \in 1..Len(text) : text[k] = "\n"})

\* C28: the InvalLines of every edit, undo and redo has old_text = the
\* visible text before the operation, start_line = the line of the first
\* offset the delta touches, and new_count - inval_count = (lines of the new
\* text) - (lines of the old text).
C28_InvalLines ==
    \A n \in 2..Len(ops) :
        LET old == ops[n - 1].self.text
            new == ops[n].self.text
            il == ops[n].inval
        IN  /\ il.old_text = old
            /\ il.start_line = LinesOf(SubSeq(old, 1, FirstTouched(ops[n].delta.els, 0))) - 1
            /\ il.new_count - il.inval_count = LinesOf(new) - LinesOf(old)

\* An edit, an undo and a redo that each change the number of lines, the
\* undo below the first line.
C28_Witness ==
    \E n \in 2..Len(ops), m \in 2..Len(ops), r \in 2..Len(ops) :
        /\ ops[n].op = "edit" /\ ops[m].op = "undo" /\ ops[r].op = "redo"
        /\ \A q \in {n, m, r} : ops[q].inval.new_count # ops[q].inval.inval_count
        /\ ops[m].inval.start_line > 0

\* A linear history up to operation p: edits, then k do_undo() calls that
\* returned Some, then j <= k do_redo() calls that returned Some.
Linear(a, k, j) ==
    /\ \A m \in 2..(a + 1) : ops[m].op = "edit"
    /\ \A m \in (a + 2)..(a + 1 + k) : ops[m].op = "undo"
    /\ \A m \in (a + 2 + k)..(a + 1 + k + j) : ops[m].op = "redo"

\* The operations that made the last edit of a group, among the edits
\* 2..a+1, and the text right after the last edit of the i-th group (the
\* initial text for i = 0).
GroupEnds(a) ==
    {m \in 2..(a + 1) : m = a + 1 \/ GroupOf(m + 1) # GroupOf(m)}

TextAfterGroup(a, i) ==
    IF i = 0 THEN ops[1].text
    ELSE ops[CHOOSE m \in GroupEnds(a) :
                 Cardinality({x \in GroupEnds(a) : x <= m}) = i].text

\* C29 (of the history that ends at the last recorded operation; every
\* shorter history is a state of its own): after edits that formed the
\* groups G1..Gn with no undo in between, k <= n successful do_undo() calls
\* leave the text as it was right after the last edit of G(n-k) (the
\* initial text when k = n), and j <= k do_redo() calls after them leave the
\* text as it was right after the last edit of G(n-k+j).
C29_LinearHistory ==
    \A a \in 0..(Len(ops) - 1), k \in 0..(Len(ops) - 1) :
        LET j == Len(ops) - 1 - a - k IN
        (0 <= j /\ j <= k /\ Linear(a, k, j))
        => LET n == Cardinality(GroupEnds(a)) IN
           /\ k <= n
           /\ ops[a + 1 + k + j].text = TextAfterGroup(a, n - k + j)

\* Three edits in two groups, the first group of two edits, then two undos
\* back to the initial text and one redo.
C29_Witness ==
    /\ Len(ops) = 7
    /\ Linear(3, 2, 1)
    /\ Cardinality(GroupEnds(3)) = 2
    /\ GroupOf(2) = GroupOf(3)
    /\ ops[6].text = ops[1].text
    /\ ops[7].text = ops[3].text /\ ops[7].text # ops[1].text

\* A result computed from the present revisions of both buffers has been
\* delivered, has passed both comparisons and stands in both views.
FreshDiffInstalled ==
    \E k \in 1..Len(app.log) :
        LET d == app.log[k] IN
        /\ d.job.left_rev = rev(buf) /\ d.job.right_rev = rev(app.right)
        /\ d.job.left_rope = buf.text /\ d.job.right_rope = app.right.text
        /\ d.job.changes = rope_diff(buf.text, app.right.text)
        /\ d.left_atomic_rev = d.job.left_rev
        /\ d.right_atomic_rev = d.job.right_rev
        /\ app.views.left = DiffView(FALSE, d.job.changes.changes)
        /\ app.views.right = DiffView(TRUE, d.job.changes.changes)

\* C30: every change of a buffer's revision spawns a job on the ropes of
\* that moment, so once both buffers have stopped changing (they do in every
\* run here, after MaxLiveOps operations at the latest) a diff computed from
\* their final revisions is eventually delivered, passes the staleness check
\* and is installed in both views, and stays there.
C30_FreshRecomputation == <>[]FreshDiffInstalled

\* A result was discarded because a buffer had changed after its snapshot,
\* and the result of the job spawned for that change stands in the views.
C30_Witness ==
    /\ FreshDiffInstalled
    /\ app.nops.left + app.nops.right > 0
    /\ \E k \in 1..Len(app.log) :
        /\ app.log[k].job.changes.some
        /\ app.log[k].views_after = app.log[k].views_before
        /\ \/ app.log[k].left_atomic_rev # app.log[k].job.left_rev
           \/ app.log[k].right_atomic_rev # app.log[k].job.right_rev

\* C31: whenever is_pristine() is true the visible text is the visible text
\* of the moment the pristine revision was recorded by set_pristine(),
\* init_content, reload or new (the text the operation that appended the
\* revision numbered pristine_rev_id left behind).
C31_PristineIsSound ==
    is_pristine(buf) => buf.text = ops[PristineOp].text

\* is_pristine() is true at a revision other than the recorded one, after
\* an edit was undone, and the recorded revision is not the first.
C31_Witness ==
    /\ is_pristine(buf)
    /\ rev(buf) # buf.pristine_rev_id
    /\ buf.pristine_rev_id > 0
    /\ ops[Len(ops)].op = "undo"
    /\ buf.text = ops[PristineOp].text

\* C32: after every completed public operation (new, init_content, edit,
\* reload, do_undo, do_redo) the set undos equals the set undone_groups.
C32_UndoneSetsCoincide ==
    buf.undos = buf.undone_groups

\* An edit made after an undo: the undone group was cut from live_undos and
\* stands in both sets.
C32_Witness ==
    /\ Len(ops) >= 4
    /\ ops[Len(ops)].op = "edit"
    /\ ops[Len(ops) - 1].op = "undo"
    /\ buf.undos # {}
    /\ buf.undos = buf.undone_groups
    /\ \A i \in 1..Len(buf.live_undos) : buf.live_undos[i] \notin buf.undos

\* C33: under the public operations (edit of any type, reload, init_content
\* on a fresh buffer, reset_edit_type, do_undo and do_redo, successful or
\* not) the undo_group given to mk_new_rev, which the appended Edit revision
\* records, is never a member of undone_groups as mk_new_rev finds it.
C33_NoEditJoinsUndoneGroup ==
    [][(Len(buf'.revs) > Len(buf.revs) /\ Last(buf'.revs).kind = "Edit")
        => Last(buf'.revs).undo_group \notin buf.undone_groups]_vars

\* A character typed, undone, and a character typed again: the second
\* typing did not join the first one's group, which is still the last
\* undone one.
C33_Witness ==
    /\ Len(ops) = 4
    /\ ops[2].op = "edit" /\ ops[2].edit_type = "InsertChars"
    /\ ops[3].op = "undo"
    /\ ops[4].op = "edit" /\ ops[4].edit_type = "InsertChars"
    /\ GroupOf(2) \in ops[3].undone
    /\ GroupOf(4) # GroupOf(2)
    /\ GroupOf(4) \notin ops[3].undone

\* The log of a buffer is dense: rev_counter is its length and the revision
\* at index i (0-based) has number i.
DenseLog(self) ==
    /\ self.rev_counter = Len(self.revs)
    /\ \A i \in 1..Len(self.revs) : self.revs[i].num = i - 1
    /\ rev(self) = Len(self.revs) - 1

\* C34: in every reachable state rev_counter = revs.len() and revs[i].num =
\* i (so rev() = revs.len() - 1); every edit, reload, init_content with
\* non-empty content and successful do_undo/do_redo appends exactly one
\* revision, no other operation appends any, and no step removes or
\* reorders revisions.
C34_DenseRevisionLog ==
    [][/\ DenseLog(buf) /\ DenseLog(buf')
       /\ SubSeq(buf'.revs, 1, Len(buf.revs)) = buf.revs
       /\ Len(buf'.revs) = Len(buf.revs) +
            (IF /\ Len(ops') > Len(ops)
                /\ \/ Last(ops').op \in {"edit", "reload", "reload_pristine", "undo", "redo"}
                   \/ Last(ops').op = "init_content" /\ buf'.text # <<>>
             THEN 1 ELSE 0)]_vars

\* init_content with content, an edit and an undo have each appended one
\* revision to the sentinel.
C34_Witness ==
    /\ Len(ops) = 4
    /\ ops[2].op = "init_content" /\ ops[2].nrevs = 2
    /\ ops[3].op \in {"edit", "reload"} /\ ops[3].nrevs = 3
    /\ ops[4].op = "undo" /\ ops[4].nrevs = 4
    /\ buf.rev_counter = 4 /\ rev(buf) = 3

\* The groups that were undone when the edit of operation n cut them from
\* live_undos.
Abandoned(n) ==
    IF n < 2 \/ ops[n].op # "edit" THEN {}
    ELSE {g \in ops[n - 1].undone :
            /\ \E i \in 1..Len(ops[n - 1].live_undos) : ops[n - 1].live_undos[i] = g
            /\ \A i \in 1..Len(ops[n].live_undos) : ops[n].live_undos[i] # g}

\* C35: a group that was undone and then cut from live_undos by a new edit
\* is in undos and in undone_groups in every later state (every state is
\* the last of its own history here), is never again in live_undos, and
\* none of the characters it inserted is in the visible text.
C35_AbandonedGroupsStayUndone ==
    \A n \in 2..Len(ops) : \A g \in Abandoned(n) :
        /\ g \in buf.undos
        /\ g \in buf.undone_groups
        /\ \A i \in 1..Len(buf.live_undos) : buf.live_undos[i] # g
        /\ Shown(buf.text, g) = <<>>

\* A group that typed a character was undone and abandoned by the third
\* operation; an undo, a redo and an edit followed.
C35_Witness ==
    /\ Len(ops) = 7
    /\ \E g \in Abandoned(4) : CharsOf(g) # {}
    /\ ops[5].op = "undo" /\ ops[6].op = "redo" /\ ops[7].op = "edit"
    /\ buf.text # <<>>

\* C36: the clone of a buffer holds the cell the original holds, so the
\* revision number published last, by an edit, undo or redo of either of
\* the two, is what the atomic_rev() handle of each of them shows.
C36_CloneSharesAtomicRev ==
    app.clone.some =>
        /\ app.clone.handle = app.handle
        /\ app.cells[app.handle] = app.published
        /\ app.cells[app.clone.handle] = app.published

\* The original was edited more often than its clone, and the clone last:
\* the cell both hold shows the clone's number, below the original's rev().
C36_Witness ==
    /\ app.clone.some
    /\ rev(app.clone.self) > 0
    /\ rev(buf) > rev(app.clone.self)
    /\ app.published = rev(app.clone.self)
    /\ app.cells[app.handle] = rev(app.clone.self)
    /\ buf.atomic_rev # app.cells[app.handle]

\* The lines the ranges of a result cover, all together.
RECURSIVE LinesCovered(_)
LinesCovered(out) ==
    IF out = <<>> THEN 0 ELSE RangeLen(Head(out).lines) + LinesCovered(Tail(out))

\* C37: for every segment list, in any order of Left, Right and Both, the
\* ranges left_changes() emits cover as many lines in total as the ranges
\* right_changes() emits.
C37_SideBySideAlignment ==
    diff.done => LinesCovered(diff.left) = LinesCovered(diff.right)

\* A replacement with the longer side on the left and a lone Right after
\* it, classified: padding on the right, Empty for the lone Right on the left.
C37_Witness ==
    /\ diff.done
    /\ Len(diff.changes) = 3
    /\ diff.changes[1].t = "Left" /\ diff.changes[2].t = "Right"
    /\ RangeLen(diff.changes[1].l) > RangeLen(diff.changes[2].r)
    /\ diff.changes[3].t = "Right"
    /\ Len(diff.left) = 2 /\ Len(diff.right) = 3
    /\ LinesCovered(diff.left) = LinesCovered(diff.right)

\* C38: init_content on a fresh buffer records its insertion in undo group
\* 0, leaves live_undos, cur_undo and undo_group_id as they were and marks
\* the buffer pristine; directly afterwards do_undo() returns None and
\* is_pristine() is true; no later do_undo() takes a character of the
\* initial content out of the visible text, and when do_undo() has nothing
\* left to undo the text is the initial content.
C38_InitialContentNotUndoable ==
    (Len(ops) >= 2 /\ ops[2].op = "init_content") =>
        /\ ops[2].live_undos = ops[1].live_undos
        /\ ops[2].cur_undo = ops[1].cur_undo
        /\ ops[2].undo_group_id = ops[1].undo_group_id
        /\ ops[2].undos = {} /\ ops[2].undone = {}
        /\ ops[2].is_pristine
        /\ ops[2].text # <<>> =>
              /\ ops[2].nrevs = 2
              /\ buf.revs[2].kind = "Edit" /\ buf.revs[2].undo_group = 0
              /\ buf.pristine_rev_id >= buf.revs[2].num
        /\ Len(ops) = 2 => (do_undo(buf).ret = "None" /\ is_pristine(buf))
        /\ \A n \in 3..Len(ops) :
              ops[n].op = "undo" =>
                  SeqRange(Shown(ops[n - 1].text, 0)) \subseteq SeqRange(Shown(ops[n].text, 0))
        /\ do_undo(buf).ret = "None" => buf.text = ops[2].text

\* The initial content was given, an edit took one of its characters out
\* and a do_undo() brought it back; nothing is left to undo.
C38_Witness ==
    /\ Len(ops) = 4
    /\ ops[2].op = "init_content" /\ ops[2].text # <<>>
    /\ ops[3].op = "edit" /\ Len(Shown(ops[3].text, 0)) < Len(ops[2].text)
    /\ ops[4].op = "undo" /\ ops[4].text = ops[2].text
    /\ do_undo(buf).ret = "None"

\* A revision without its cursor snapshots: num, max_undo_so_far and edit.
Uncursored(r) == [r EXCEPT !.cursor_before = NoCursor, !.cursor_after = NoCursor]

\* C39: no step modifies a revision other than the last one of the log; on
\* the last one num, max_undo_so_far and edit stay as created, and its
\* cursor_before / cursor_after change only in set_cursor_before /
\* set_cursor_after, each its own field.
C39_RevisionsImmutable ==
    [][LET n == Len(buf.revs)
           op == IF Len(ops') > Len(ops) THEN Last(ops').op ELSE "none"
       IN  /\ Len(buf'.revs) >= n
           /\ \A i \in 1..(n - 1) : buf'.revs[i] = buf.revs[i]
           /\ Uncursored(buf'.revs[n]) = Uncursored(buf.revs[n])
           /\ op # "set_cursor_before"
                => buf'.revs[n].cursor_before = buf.revs[n].cursor_before
           /\ op # "set_cursor_after"
                => buf'.revs[n].cursor_after = buf.revs[n].cursor_after]_vars

\* Both snapshots were put on an Edit revision, it was undone, and a
\* snapshot was put on the Undo revision: the Edit revision still has its
\* own two.
C39_Witness ==
    /\ Len(buf.revs) >= 3
    /\ buf.revs[2].kind = "Edit"
    /\ buf.revs[2].cursor_before = "b1" /\ buf.revs[2].cursor_after = "a1"
    /\ buf.revs[3].kind = "Undo"
    /\ Last(ops).op = "set_cursor_before"
    /\ Len(buf.revs) = 3
    /\ buf.revs[3].cursor_before = "b2"

\* The largest undo_group of the Edit revisions among the first k of the
\* log, 0 if there is none.
LargestGroupUpTo(k) ==
    LET gs == {buf.revs[i].undo_group :
                  i \in {j \in 1..k : buf.revs[j].kind = "Edit"}}
    IN  IF gs = {} THEN 0 ELSE CHOOSE g \in gs : \A h \in gs : h <= g

\* C40: max_undo_so_far of every revision is the largest undo_group of the
\* Edit revisions at or before it (0 if none) and does not decrease along
\* the log, and the undo_group of the Edit revisions made by edit and reload
\* does not decrease along the log.
C40_MaxUndoSoFar ==
    /\ \A k \in 1..Len(buf.revs) : buf.revs[k].max_undo_so_far = LargestGroupUpTo(k)
    /\ \A k \in 2..Len(buf.revs) :
          buf.revs[k - 1].max_undo_so_far <= buf.revs[k].max_undo_so_far
    /\ \A i \in 1..Len(buf.revs), j \in 1..Len(buf.revs) :
          (i < j /\ buf.revs[i].kind = "Edit" /\ buf.revs[j].kind = "Edit")
          => buf.revs[i].undo_group <= buf.revs[j].undo_group

\* Two groups were made, the second by a reload, both were undone, the
\* older one last, and an edit in a third group followed.
C40_Witness ==
    /\ Len(buf.revs) = 6
    /\ buf.revs[2].kind = "Edit" /\ buf.revs[2].undo_group = 1
    /\ buf.revs[3].kind = "Edit" /\ buf.revs[3].undo_group = 2
    /\ ops[3].op = "reload"
    /\ buf.revs[4].kind = "Undo" /\ buf.revs[4].toggled_groups = {2}
    /\ buf.revs[5].kind = "Undo" /\ buf.revs[5].toggled_groups = {1}
    /\ buf.revs[5].max_undo_so_far = 2
    /\ buf.revs[6].kind = "Edit" /\ buf.revs[6].undo_group = 3
    /\ buf.revs[6].max_undo_so_far = 3

====
